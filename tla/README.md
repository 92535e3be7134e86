# Verification of the FORTE runtime for STM32

The repository is a port of Eclipse 4diac FORTE, a C++ runtime for IEC 61499
control applications, to an STM32F407 under FreeRTOS and lwIP. An application
is a network of function blocks; a block reacts to an input event by reading
its data inputs, running and sending output events, which connections carry to
the inputs of other blocks. This directory holds TLA+ models of the runtime's
core, TLC configurations that check them on small instances, and proofs that
hold for instances of every size.

Paths below are relative to `src/src/` unless they begin with `User/`.

## The system

| component | state it keeps | operations | talks to |
|---|---|---|---|
| Event chain execution thread, "ecet" (`core/ecet.cpp`) | internal event list and external event list (two ring buffers), suspend semaphore, list lock, alive flag | `run`/`mainRun`, `transferExternalEvents`, `startEventChain`, `addEventEntry`, `clear`, `changeExecutionState` | one thread per resource; external events come from the timer task, communication handlers and other ecets; function blocks call back into `addEventEntry` |
| Thread base (`arch/threadbase.tpp`, `arch/freeRTOS/*`) | handle, alive flag, join semaphore | `start`, `end`, `join`, `runThread` | owned by ecets and handlers |
| Timer handler (`arch/timerha.cpp`) | time, timed list, add list, remove list | `registerTimedFB`, `unregisterTimedFB`, `nextTick` | runs in the FreeRTOS timer task, called from ecets and the manager, starts event chains |
| Timed blocks (`stdfblib/timedfb.cpp`, `E_CYCLE`, `E_DELAY`, `E_RDELAY`) | active flag, timer list entry | START, STOP, external event, management Stop/Kill | timer handler |
| Connections (`core/conn.cpp`, `dataconn.cpp`, `eventconn.cpp`) | destinations, value type, special-cast flag; a pointer back at each input | connect, disconnect, read, trigger | function block ports; a triggered connection queues pointers into its list in the ecet |
| Adapters (`core/adapter.cpp`, `adapterconn.cpp`) | peer, connection, socket; an event entry per event of the peer | connect, disconnect, execute event | the blocks that own plug and socket, the ecet |
| Function block base (`core/funcbloc.cpp`) | execution state, ports | receive/send event, change state | ecet, connections |
| Container, resource, device (`core/fbcontainer.cpp`, `resource.cpp`, `device.cpp`, `stdfblib/ita/RMT_DEV.cpp`) | contained blocks, the resource's ecet | create, delete, connect, start, stop, kill, reset; `forteStopInstance` | manager (`DEV_MGR`, boot file), all of the above |
| `E_RESTART` (`stdfblib/events/E_RESTART.cpp`) | event to send, semaphore | announces Start and Stop of its resource; a Stop waits until STOP is sent | management thread, ecet |
| Communication blocks and layers (`core/cominfra/*`) | layer stack, connection state, interrupt queue, receive buffer | open, close, send, receive, interrupt | socket handler thread, ecet |
| Local layer (`core/cominfra/localcomlayer.cpp`) | groups of publishers and subscribers by ID | open, close, send | writes into subscribers of other resources under both resources' data locks, starts event chains there |
| Socket handler (`arch/fdselecthand.cpp`) | list of sockets and call-backs | add, remove, select loop | communication layers |
| Other event blocks (`stdfblib/events/*`), basic and composite blocks, type library, string dictionary, monitoring, encoding layers, Modbus, I/O | see `PROJECT.json`, "components" | | |

What is hard here is concurrency over shared lists with few locks. An ecet, the
timer task, the socket handler and the thread that executes management commands
(often another ecet) run in parallel, and the code deliberately leaves the
internal event list, the test for external events, the active flag of timed
blocks and some list heads unprotected. Queues are fixed in size and drop what
does not fit. State changes pass through several objects and can fail half way.
`PROJECT.json` lists the hazards line by line, each with the properties that
would notice it going wrong, or with the assumption that keeps it out of the runs.

What makes each component correct:

* **ecet**: events are delivered in order, none lost or twice, as long as the
  lists have room; no wake-up is lost; a stop ends the thread, a start runs it.
* **timer and timed blocks**: the lists stay lists, an entry is on one of them
  exactly while its block is active, no output event comes early, and none
  after a stop.
* **connections**: what the manager was answered, the source's destinations and
  the inputs' pointers are the same set; no pointer to a deleted block; types
  and conversions fit; every destination gets its event.
* **adapters**: plug, socket and connection name each other, and no event entry
  of a deleted adapter is followed.
* **life cycle**: a state change is announced by `E_RESTART` in order and answered
  at all; no thread outlives its resource; an instance can be ended.
* **local communication**: what is indicated is one publication, what has been
  counted is indicated, and publishers do not lock each other out.
* **communication**: every received message is indicated once, alone and in
  order; no deleted layer is called; sockets, call-backs and connection state
  agree; attempts to connect and requests are answered.

## Modules

| module | models |
|---|---|
| `EventRing` | the ring buffer both event lists are: clear, add, take, and the last entry of a full ring |
| `EventQueue` | abstract specification: two FIFO queues and the execution of the head event |
| `EventChain` | the ecet with the thread it runs on, its event sources and the management commands; refines `EventQueue` |
| `EventRingProofs`, `EventChainProofs` | theorems about the ring and the thread, and that the thread implements `EventQueue` |
| `TimerHandler` | the timer's lists, by head pointer and the entries' `mNext` field, and the tick |
| `TimedFB` | `E_CYCLE`, `E_DELAY`, `E_RDELAY` and the application on top of `TimerHandler` |
| `TimedFBProofs` | theorems about the timer and the timed blocks |
| `MCTimedFB` | one block of each kind |
| `Connections` | data connections, creation and deletion of blocks, execution states |
| `IPComLayer` | the IP layer, the block's interrupt queue and the select thread |
| `CommFB` | a communication block with its event chain thread, its application, manager and peers, on top of `IPComLayer` |
| `Lifecycle` | device, resources, blocks and threads under state commands, Delete and the end of the instance, with `E_RESTART` |
| `MCLifecycle` | two resources, one with an `E_RESTART` before another block |
| `LocalComm` | publishers and subscribers of the local layer, groups, data locks and interrupt counts |
| `MCLocalComm` | a publisher in each of two resources, two subscribers in the second |
| `EventConnections` | event and adapter connections against the entries the ecet holds |
| `MCEventConnections` | three blocks with an output, two inputs, two plugs and two sockets |
| `CommFBProofs`, `LocalCommProofs`, `EventConnectionsProofs`, `LifecycleProofs` | theorems about the four |
| `ConnectionsProofs` | theorems about `Connections` |
| `MCConnections` | three blocks, a floating point, a generic and several typed ports |

### How the modules correspond to the code

State variables carry the names of the fields. `PROJECT.json`, "map", gives the
lines of every definition.

**EventChain.** The thread's place in the code is `pc`. Between two labels the
thread makes at most one access another thread can notice. A critical section
that makes no other call is one action, guarded by the lock being free; the
transfer loops and so holds the lock over several actions. `mainRun` is
`ExternalEventOccured` (the comparison without the lock), `TransferLock`,
`TransferEntry`, `TransferLast`, `SelectEvent` (the two pointers and the null
check), then `SelfSuspend`, or `Deliver` (the entry is read a second time, to be
dereferenced), `AddEventEntry` for each event the executing block sends,
`ExecutionDone`, `AdvanceStart`. A null dereference is the state `fault`. The
manager's `clear()` is three actions because the internal list has no lock;
`changeExecutionState` clears the flag and gives the semaphore in two. A source
whose event finds the list full changes nothing, so dropping is stuttering. The
semaphore is binary, as `xSemaphoreCreateBinary` makes it. A binary semaphore
is enough is what `NoLostWakeup` says. `Load` bounds the events outstanding in
both lists, which no code enforces. With as many events outstanding as the
internal list has slots `ChainEventsDelivered` does not hold: the full list's End
is on the slot it has just filled, Start moves round to it and the thread takes
the list for empty.

**TimerHandler, TimedFB.** `registerTimedFB` is two actions, its fields without
and its push with the lock. `nextTick` is the increment, the look at the remove
list, then one action per entry removed, fired or added; the locks exclude the
push and `unregisterTimedFB` meanwhile. An entry on two lists at once damages
them as in the code, since both lists share the one `mNext` field. `pending` is
the part of the external event list that timer events take. `commanded` and
`due` are history variables that properties use and no step of the code reads,
except that `Spaced` uses `commanded` to describe the application.

**Connections.** One action per management command: the resource executes them
one at a time. `ConnectEffect` is `establishDataConnection` in its order: types,
`addDestination`, `connectDI`, and `popFront` when that refuses. `answered` is
what the manager knows from the responses. Deleting a block leaves the other
blocks' lists and pointers alone, as the code does. Five data types stand for
the twenty: the generic one, two floating point types, an integer and a string,
which converts to none of them. Composite block interfaces (`connectToCFBInterface`) and the
values carried are left out.

**IPComLayer, CommFB.** One block with layers `raw` over `ip`, and two threads.
The select thread's place is `hand`: copy of the descriptor set, select, the walk
of the call-back list with the iterator already stepped on, then `recvData` and
what it calls, then `Notify`. The event chain thread's is `ecet`: `receiveData`
with its copy of the count, each queued layer's `processInterrupt`, the shift of
the queue, the end of `executeEvent`. What the code does in several accesses to
shared memory without a lock is several actions: bytes into the buffer and fill
count, queue entry and count, hand-up of the buffer and its reset, read and
write of the count. A layer object is known by the number of the opening that
created it, so that a call of a deleted one can be told: such a call is a state
with no step for that thread, and `NoDeadLayer` says there is none. Accepting a
client is one action since the event chain thread reads nothing of it before the
first interrupt. A write to `mConnectionListChanged` is under the handler's lock.
`net` is what the peers did: attempts waiting, bytes sent and not received, a
close. `events` counts the block's entries in the external event list, whose
delivery `EventChain` covers. Every data response is `ProcessDataOk`, as the raw
layer never refuses data. `indicated` and `sent` are history.

**Lifecycle.** The tree of containers never changes during a command, so the walk
of `changeContainedFBsExecutionState` through it is fixed when the command begins:
`work` holds the places of the sequence `Walk` that are left, the least being the one
it has come to. The places are a block's own state, for a resource then its contents and then
`changeExecutionState` of its ecet, for a Kill of the device MGR at the end. One
visit is an action, those of an `E_RESTART` several: its own change of state, the
event it will send, the state put back to RUNNING for a Stop, the start of the
event chain and the wait. A refusal ends the walk and the command
(`RefuseState`), unless `checkForActionEquivalentState` lets it go on, past the
contents if the refusing block is a resource. The command is executed by MGR's
thread, or by the main thread in `forteStopInstance`, which then joins MGR's
thread and runs the destructors. An event chain thread takes an event in
`Loop`, `Receive`; the executing `E_RESTART` reads `mEventToSend` in `Receive`,
again in `SendEvent` and again in `TestForStop`, where the code does. The two
event lists are one queue here, as `EventChain` shows they are. `history` is a
history variable.

**LocalComm.** A publisher's place is `pc` of its resource's thread: `own` (the
lock of its own resource), `walk` (the list iterator at `at`), `target` (the lock
of a subscriber's resource), `set` once for each data output, `interrupt`,
`chain`, `unlock`. A subscriber's is `receive`, `subtract` and `indicate`;
`receiveData` reads the count, and reads it again to write it less what it had
read; between the two a publisher of another resource may count an interrupt,
which the writing undoes. Opening and closing are one action each because the groups are only changed
under the manager's lock; `sendData` walks them without it, so that a subscriber
may leave under the iterator, which is then `Freed`. All data of a publication is
one value, written output by output.

**EventConnections.** An entry of the event list is a pointer: `<<e, i>>` is the
node of input `i` in the destination list of output `e`, `<<a, a>>` the entry of
adapter `a`. `it` is the iterator of `triggerEvent`, or an adapter and the peer its
`executeEvent` has looked at. Giving memory back turns every pointer into it into
`Freed`, for which the thread has no step. Once the event list has been full
(`full`) its End stays on a filled slot: it takes no event any more, and is taken for
empty with the last entry still in it, as `ecet.cpp:42` and `:128` have it. `ConnectAdapter`'s second disjunct is the
refusal of a used socket, `connect` having gone half way. ANY adapters are left
out: their interface is set at connection, after the array of event entries was
allocated for none, so that what an event of theirs does is not defined by the
code.

## Runs

| run | question | bounds |
|---|---|---|
| `event_chain` | do the two rings, the lock and the semaphore implement two FIFO queues under start, stop, kill and reset in every order, is every event transferred and delivered, and does a stopped thread end? | internal list 4, external 2, 3 events outstanding, 2 event values |
| `event_chain_restart` | does a resource that was stopped and is started again run? | violated |
| `timed_fb` | lists, flags, timing and silence under a considerate application | 3 blocks, delays 0 and 2 ticks, 3 ticks |
| `timed_fb_restart` | and when an active `E_RDELAY` is started again? | 1 block, delay 3: violated |
| `connections` | do both ends of every connection agree, and types convert, after any sequence of accepted and refused commands? | 3 blocks, 2 outputs, 4 inputs |
| `connections_second_source` | and when an input is offered a second source? | violated |
| `comm_fb` | is every message indicated once, and does every thread meet only live layers, across opens, closes, kills and peer closes? | 3 openings, queue 2, buffer 2, 2 messages, 2 outstanding events; one of server, client, subscriber |
| `comm_fb_reopen` | may the manager kill the block at any time? | 2 openings: violated |
| `lifecycle` | does no thread outlive its resource, is a command announced in order and answered, does an orderly device end? | 2 resources, 3 blocks, one an `E_RESTART`; every command to every level, in every order; queue 2 |
| `lifecycle_ends` | does every instance end that is told to? | the same: violated |
| `local_comm` | is what is indicated whole, what is counted announced, and does no thread wait in a circle? | 2 resources, 2 publishers, 2 subscribers, 2 outputs, 2 values, interrupt queue 1, event list 1 |
| `event_connections` | do both ends of adapter connections agree, does none lead to a deleted block, and is every destination served? | 3 blocks, 1 output, 2 inputs, 2 plugs, 2 sockets, event list 2, refused connections included |

The runs that end in a violation show a disagreement between the code and a
comment of its own, quoted in `PROJECT.json`, "findings". Each differs from its
passing run in the one constant that describes load or environment, or asks more
of the same; some are also smaller.

**Why the bounds are enough.** A ring of two slots fills, wraps and empties
within three events, and the two rings have different sizes so their wraps do
not coincide; the code's sizes, 256 and 10, are covered by the proofs, which
assume only two slots or more. One block of each kind exercises every branch of
the timed blocks; three entries are the least with a first, a middle and a last
one in a sorted list; three ticks allow registration, firing, periodic firing
and removal. Two outputs and three inputs allow fan-out, reconnecting to another
source and a generic block in the middle of a chain. A queue of two layers and a
buffer of two messages are the least that can hold a second one while the first
is handled; three openings allow a close by the application and one by the
manager, each with a reopening after it. The code's sizes are ten layers and
1500 bytes. Two resources are the least with one started after the other's
refusal; the `E_RESTART` stands before another block so that its wait holds up a
visit; no bound limits the number of commands. An interrupt queue and an event
list of one are full after the first publication, which is when a dropped event could
leave an interrupt without announcement; a publisher in the subscribers' own resource and one in another exercise
both branches of `setRDs`. Two plugs and two sockets allow a second connection of
either; `h` has one of each, so that an adapter's two roles meet in one block. What
is proved holds for every size.

**What the application owes.** The timed blocks keep their promises for
applications that leave the timer a tick between two commands to one block
(`Spaced`), let an expiry be executed before the next tick (`Prompt`) and do not
restart an active `E_RDELAY` (`Restart = FALSE`). `timed_fb` assumes all three.
`timed_fb_restart` drops the last: `removeTimedFB` zeroes the time-out of an entry
that the restart has just put on the add list, and EO comes at the next tick, although
`E_RDELAY.cpp:32` says "remove from the list as we want to be added with a new delay".
Without the first, a block stopped before the tick that takes its entry from the add
list stays in the timer, since the remove list is served before it. What such
applications meet is not covered. Nor is a stop that comes before the first line of
`runThread`, which overwrites it, nor the end of a thread by Kill, whose `clear()` can
make it dereference a null entry: `StopEndsRunningThread` speaks of neither.

The manager of `connections` gives no input two sources (`SingleSource`) and deletes no connected block (`DisconnectFirst`), as the
engineering tool does; the code checks neither completely. The peers, the
application and the manager of `comm_fb` wait until the block is done with what
went before (`Quiet`), except that a request, its answer and the client's close
after it need not wait: a server's two threads overlap there, and that is the
concurrency the passing run covers. `Rough` names who does not wait:
`comm_fb_reopen` shows what an impatient manager meets, and a peer that sends and
closes at once makes `ReceivedIsHandled` fail, since the close overwrites the
response that announces the data. Nothing in the code makes them wait.

A refused attempt of `connections` also decides the special-cast flag of the inputs
connected before (`dataconn.cpp:117`): with the string input refused and the integer
input connected, floating point values are copied into the integer, although
`dataconn.h:80` says that the flag tells whether a connection needs a special cast.
`ValuesConvert` is about the types of both ends only and holds through such attempts;
`FloatsConverted`, about the flag, does not, and is proved for applications with
nothing to refuse.

The manager of `lifecycle` gives a command when the threads have come to rest
(`Quiet`; "quick" in `Rough` drops it: a Stop during the announcement of a Start
gives the semaphore for a STOP that was not sent, `E_RESTART.cpp:50`), stops or
kills an `E_RESTART` only while its thread can answer ("stuck"), and deletes no
resource whose thread is asleep ("deleter"): in both cases the command would not
return. A confirmed command need not have reached everything: a Stop or Kill passes
over the contents of a resource that was in an equivalent state before, though one of
its blocks may have been started on its own since, and a Start finds the handle of an
ended thread and starts none (`event_chain_restart`). `fbcontainer.h:80` says that all
contained blocks are changed, recursively; no property here claims it.
`OrderlyInstanceEnds` has the condition the code needs to end: nothing was killed
before, and no thread outlives its resource's running state. `lifecycle_ends` drops it.

The application of `local_comm` publishes in one direction between any two resources
(`RankAssumption`): the code locks the publisher's resource first, so that
publishers in both directions can lock each other out, which `WaitsUpwards` does not
cover. Its subscribers leave when nobody sends to them ("leave" drops it, and the
iterator dangles): nothing in the code sees to either. Increments and decrements of
the interrupt counts overlap freely. An interrupt lost that way costs a publication
its indication until the next one; `InterruptsAnnounced` says that none is left in
the queue without an event.

The manager of `event_connections` takes connections back and deletes unconnected
blocks at any time. What an event is passing may be freed under it, as nothing
locks the wiring; the thread then has no step, and what the code does with the freed
node is not covered. The manager also offers a used socket to a second plug ("second"),
and the refusal takes the plug's and the socket's peer away, whoever that was
(`adapterconn.cpp:56`): the established connection keeps its destination and its
socket but no longer works, though `adapter.cpp:80` means to refuse a disconnect on
behalf of another connection.
`SocketBacked` and `NoDanglingPeer` hold all the same; `ConnectionsStay` is proved
without "second".

**Fairness.** `FairSpec` gives weak fairness to the ecet thread (its FreeRTOS
task has a fixed priority above the idle task, blocks only on its semaphore and
the list lock, and executed blocks return) and to a management call in progress.
In `CommFB` it is given to the select thread, to the event chain thread while it
has the block's events, and to an application's answer to a request; to no peer
and no command. In `Lifecycle` the thread of a command in execution and every event
chain thread have it, and nobody need give a command. `LocalComm` gives strong
fairness to each resource's steps, because they wait for locks others take again
and again: FreeRTOS mutexes wake the longest waiting thread of the highest
priority, and the resources' threads have one priority.
No fairness is assumed of event sources or of the manager's commands: an ecet
may wait for ever and be right to.

**Deadlock.** TLC checks it except where the system rests by design: in
`event_chain` a killed resource rests, the timed
models stop at `MaxTime`, the bound on the tick counter, and an ended instance
takes no command. In `local_comm` two threads that wait for each other would not
be a deadlock of the whole while other blocks can be opened, so `WaitsUpwards`
says that there is no circle and `SendEnds` that the waiting ends.

**Action and temporal properties worth reading.** `ImplementsEventQueue` is the
refinement of `EventQueue` with the contents of the rings as the queues.
`EONotEarly` and `StoppedFallsSilent` constrain the step that sends an output
event by the history of commands. `EndsAgree` relates three representations of
the same set of connections. `InterruptsAnnounced` relates a count two threads
write over each other to an event list that drops what it has no room for.
`NoThreadOutlives` relates the threads to the tree that is deleted around them.

## Proofs

`EventRingProofs` proves, for rings of every size from two, that the operations
are well typed and preserve the ring's meaning: `Contiguous` (the slots from
Start to End hold events and the others are free, up to the End slot) and
`Unlocked` (the End slot is filled only when the ring is full). `AddSound`,
`RemoveFirstSound` and `ClearFirstSound` are its results, with `AddCounts` and
`CountBounds` on the number of entries.

`EventChainProofs` proves these as theorems of `Spec`:

* `TypeCorrect`: `[]TypeOK`.
* `SyncInvariant`, the inductive invariant of the lists and the signals: the
  external ring is contiguous; outside a critical region it is unlocked; the
  thread holds the lock exactly while it transfers; and whenever the thread is
  past its test for external events with one in the list, the semaphore has been
  given. The last part is not inductive alone: it needs that sources give the
  semaphore in the critical section in which they move End, and that the thread
  takes it only on its way back to the test. `ExternalListIsSound`,
  `WakeupIsNotLost` and `StopIsNotSleptThrough` follow from it.
* `EmptyListIsEmpty`, for command sets without Kill and fewer events outstanding than
  slots: the internal ring never fills, so that End = Start means empty. The load is
  part of the invariant because taking an external event adds to one ring what it
  removes from the other.
* `DeliveryIsSafe`, for command sets without Kill and any load: the internal ring
  stays contiguous, a full one included, and the entry `mainRun` dereferences is the
  one it has checked.

`EventChainProofs` also proves, under the conditions of `EmptyListIsEmpty`, that `EventChain` implements
`EventQueue` (`ChainImplementsQueue`). On a contiguous ring `Add` appends to
`Contents`, and `RemoveFirst`, or `ClearFirst` on the last entry of a full ring,
takes its head. With `SyncInv` and `ChainInv` each action is then one step of the
queue or leaves it as it is; the load gives the room a transfer needs, and the
null-pointer check of `mainRun` never fails on an entry the pointers count.

`TimedFBProofs` proves every property of `timed_fb`, for any number of blocks of each
kind, any delays and any bound on the time.

* Lists. A list is known by a head and the `mNext` fields, and `Path` walks them.
  `IsList` numbers the entries of a list that ends; that the walk meets exactly these
  (`ListFacts`) is an induction over its steps, done by the least step at which it
  would go wrong (`LeastOf`). `AddFacts`, `RemoveFacts` and `TriggerFacts` then say of
  `addTimedFBEntry`, `removeTimedFB` and `triggerTimedFB` that their while loops end
  and that they put in or take out one entry of a sorted list.
* `TypeCorrect` holds whatever the application does, also for lists that an entry on
  two of them has damaged.
* `ListsStaySound`, `NeverOverdue`, `FlagsMatchLists`, `NeverEarly` and
  `SilentOnceStopped` hold (`NeverEarly` for systems without `E_RDELAY`) if the application is `Considerate`: `Spaced`, `Prompt`, no
  `Restart`, and room in the external list for one event of each block, the setting
  of `timed_fb`. With any one of the four dropped TLC finds one of the five false on
  the same instance. The inductive invariant `IInv` says of each block where it is:
  on the add list only until the tick after its START (`AddedInv`), to be removed only
  until the tick after its STOP (`LeavingInv`), on the timed list as long as it is
  active unless it is a delay whose expiry is in line (`ActiveInv`), and registered only
  while it is nowhere in the timer (`RegisteringInv`). That is why the push never meets
  an entry that is still linked. `WaitingInv` and `TimeOutInv` relate the time-outs
  to `due`. A block with an event in line gets no second one, so the events never
  outnumber the blocks and none is dropped (`EventStarted`).

`ConnectionsProofs` proves of `Connections`, for any blocks, ports and types:

* `TypeCorrect`, which includes that no destination list holds an input twice.
* `EndsAlwaysAgree`, given `SingleSource` and `DisconnectFirst`. `EndsAgree` is
  inductive over the types: an input with another source is the only one `connectDI`
  refuses, so under `SingleSource` nothing is taken back with `popFront`, and
  deleting an unconnected block leaves no entry behind.
* `NothingDangles`: its consequence, `NoDanglingEnd`, that no existing block's list
  or pointer refers to a deleted one.
* `ValuesAlwaysConvert`, under the same two: inductive together with the ends, since an
  ANY output that takes a type hands it to the inputs it already feeds, and a refused
  attempt changes no settled type.
* `FloatsAlwaysConverted`, for ports declared with numeric types (`Numeric`) besides:
  whether a connection casts is decided anew at every connection and so has to come
  out the same for all its inputs (`CastsAgree`). With a string input it does not: the
  refused attempt described above overwrites the flag.

`LocalCommProofs` proves every invariant of `local_comm`, for any number of
resources, publishers, subscribers, outputs and groups, with the assumptions of
`LayerAssumption` and `RankAssumption`:

* `TypeCorrect`, from `ThreadsPlaced`, which adds to the types what each place in
  the code knows: whose block a thread executes, that it is open, and where the
  iterator and the counter stand. `WriteCount` needs it, since only the bound on
  the difference keeps the count within the queue.
* `GroupsAgreeAlways`; `LocksAreHeldAlways`, from `LocksHeld`.
* `NobodyWaitsInACircle`: the holder of a lock that a thread waits for is running,
  or waits for a resource of a higher rank. It follows from who can hold a lock and
  from `RankAssumption`, without which it is false.
* `IndicationsAreWhole`, if subscribers leave as they should: outside the `set`
  phase of a publisher that has locked the subscriber's resource, all its outputs
  are equal; `Indicate` takes that resource's lock. `SubscribersStay` is the
  invariant behind it: nobody leaves under the iterator.
* `EveryInterruptAnnounced`, with no condition on the application. `CountInv` is
  inductive: a subscriber's count is positive only with an event pending, or a
  publisher between `interruptCommFB` and `startNewEventChain`, or its own thread
  between `ExternalEvent` and `WriteCount`; what the thread then leaves in the count
  is at most what has been counted, and announced, since.

`EventConnectionsProofs` proves every invariant of `event_connections`. `AdaptersSound`
is the inductive one: what a socket's connection, a plug's destination and the
connection's socket can be while the peers disagree after a refusal. Its other
theorems are `SocketAlwaysBacked`, `NoDanglingPeers`, `TypeCorrect`,
`EveryDestinationServed` (what is owed is the part of the list behind the iterator),
and, if no used socket is offered a second plug, `ConnectionsStay`.

`LifecycleProofs` proves every invariant of `lifecycle`, for any tree of resources
and blocks and any set of commands:

* `TypeCorrect`, with no condition on the manager. `WalkInv` is behind it: a place of
  the walk is of a block or thread that exists, and is where the step says.
* `AnnouncementsInOrder`, for a manager that waits for the threads to rest and leaves
  an `E_RESTART` alone whose thread cannot answer (`Considerately`), and lists with
  room for one event of each `E_RESTART` of their resource (`ListsSuffice`; with a list
  of one and two of these, TLC finds an announcement dropped and the outputs out of
  order, and the code's lists hold 10 and 256). `IInv` follows the event of an
  `E_RESTART` through its stages, from the command's thread through the list to the
  places of `executeEvent` (`Stage`), and says for each what has been sent, which
  event is to be sent next and whether the semaphore is given. It rests on
  `ThreadInv` (whom a thread serves and that it is alive while somebody waits for it),
  `QueueInv` (no block has two events under way, hence `RoomForOne` by counting) and
  `SettledInv` (a block a Stop or Kill has still to come to has nothing under way).
* `NoThreadLeft`, with no condition on the manager: `GoneInv` says that a resource
  that is gone has seen its thread end, and that blocks go with their resource
  (`TreeInv`). A thread that runs is of a resource that is there, so that what it
  executes and what is in its list is there too.

`CommFBProofs` proves `TypeCorrect` and `CallbacksAlwaysAgree`, for any sizes of the
buffer, the interrupt queue and the external list, any number of layers and messages,
and whatever peers, application and manager do. Their inductive invariant `BaseInv`
has two parts beyond the types:

* `LayerInv`: the list of call-backs is `Listed`, a function of the layer's two
  sockets (the listening one first), so that each `addComCallback` and
  `removeComCallback` of either thread has one result to reach.
* `CountInv`: the copies of the interrupt queue's count that `interruptCommFB`
  (`hand.n`) and `executeEvent` (`ecet.n`) hold while they write it back without a
  lock. The first thread only raises the count and the second only lowers it, so a
  copy errs to one side, and the count stays within the queue even when an increment
  or decrement is lost.

`IndicatedOnce`, `ReceivedIsHandled` and `NoDeadLayer` hold only if everyone waits for
the block (`Rough = {}`), which nothing in the code makes them do, and are left to TLC.
Without it TLC finds a layer entered after its deletion and a message joined to
another or lost, with hasty peers as with a hasty manager (`comm_fb_reopen` is the run
kept of these), and with hasty peers data that no interrupt tells of.

The assumptions are the constants' (`SizeAssumption`, `LoadAssumption`,
`CommandAssumption`, `NoEventAssumption`, `TreeAssumption`, ...) and those named here.

Only model-checked: every liveness property and anything else with fairness, which
are beyond the prover, what the runs that expect a violation show, and the three
invariants of `comm_fb` named above. Every other invariant and action property of a
passing run has a theorem.

## Not modelled

Of the repository's lines almost all are third-party: the STM32 drivers, lwIP,
FreeRTOS and EasyFlash, or modules of other architectures. The models cover the
runtime's core, which is a few thousand lines.

* Of communication: receive errors other than a close (what lwIP returns after a
  reset is outside the source), empty datagrams, publishers over sockets, Stop of a
  block, the start of the select thread, the ASN.1 layer.
* Of the wiring: interfaces of composite blocks (`connectToCFBInterface`), ANY
  adapters.
* Of the life cycle: blocks created and deleted one by one (in `Connections` and
  `EventConnections`), subcontainers as such, threads that cannot be created.
* Values, encodings (ASN.1), data type arithmetic, parsing of management
  commands and boot files, monitoring, look-up tables: sequential code over data.
* FreeRTOS, lwIP, drivers, EasyFlash: third-party. Tasks, binary semaphores and
  the timer are modelled as the runtime uses them.
* Modules of other architectures and optional modules the build leaves out.

## Plan

1. `EventRing`, `EventQueue`, `EventChain` with proofs; `TimerHandler`,
   `TimedFB`; `Connections`. Done.
2. `IPComLayer`, `CommFB`: a communication block, its interrupt queue, the IP
   layer's buffer and connection states, and the select thread. Done for raw
   over ip; left: Stop, receive errors, two blocks on one select thread.
3. `Lifecycle`: device, resources, blocks and threads under state commands, with
   `E_RESTART` and the wait in it. Done, with proofs.
4. `EventConnections`: connection changes against queued event entries; adapters.
   Done, with proofs; left: composite interfaces.
5. `LocalComm`: publishers and subscribers of two resources and their data locks.
   Done, with proofs.
6. Counters, rendezvous and trains as operators checked against definitions.
7. Proofs: `EventChain` implements `EventQueue`; the type invariants and the
   invariants and action properties of the passing runs. Done, but for three of
   `comm_fb`.
8. Runs for what the assumptions above keep out: the special-cast flag after a refused
   attempt, commands that do not reach everything, a full internal list, messages that
   arrive while one is handed up, circles of publishers.
