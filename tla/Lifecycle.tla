------------------------------ MODULE Lifecycle ------------------------------
(***************************************************************************)
(* The life cycle of a device: the execution states of the device, its     *)
(* resources and their function blocks under Start, Stop, Kill, Reset and  *)
(* Delete, the event chain threads these start and end, E_RESTART, which   *)
(* announces every change from the resource's own thread, and the end of   *)
(* the instance (forteStopInstance).                                       *)
(*                                                                         *)
(* A state command walks the tree of containers in a fixed order; "work"   *)
(* holds the places of the walk that are left, the least being the one it  *)
(* has come to.  The walk is done by the thread of the management          *)
(* resource, or by the main thread when the instance ends, while the       *)
(* resources' threads run.                                                 *)
(***************************************************************************)
EXTENDS Integers, Sequences, SequencesExt

CONSTANTS
  Dev,          \* the device
  Mgr,          \* its management resource RMT_DEV::MGR, in no container
  ResourceList, \* the resources in the order the device contains them
  BlockList,    \* for each resource, its blocks: those of subcontainers first
  RestartFBs,   \* the blocks that are E_RESTARTs
  QueueSize,    \* events of E_RESTARTs an event chain has room for
  Commands,     \* the management commands given, pairs <<command, target>>
  Rough         \* ways in which the manager is not considerate

Resources == ToSet(ResourceList)
Threads == Resources \cup {Mgr}
BlocksOf(r) == ToSet(BlockList[r])
Blocks == UNION {BlocksOf(r) : r \in Resources}
FBs == {Dev} \cup Threads \cup Blocks
ResourceOf(b) == CHOOSE r \in Resources : b \in BlocksOf(r)

ASSUME TreeAssumption ==
  /\ ResourceList \in Seq(Resources)
  /\ \A r \in Resources : BlockList[r] \in Seq(BlocksOf(r))
  /\ Resources \cap Blocks = {}
  /\ \A r, s \in Resources : r # s => BlocksOf(r) \cap BlocksOf(s) = {}
  /\ RestartFBs \subseteq Blocks
  /\ Dev # Mgr /\ {Dev, Mgr} \cap (Resources \cup Blocks) = {}
  /\ QueueSize \in Nat \ {0}

ASSUME CommandAssumption ==
  Commands \subseteq {"Start", "Stop", "Kill", "Reset", "Delete"} \X (FBs \ {Mgr})

VARIABLES
  state,     \* m_enFBState of every block, resource and the device
  fbs,       \* the blocks, resources and devices that exist
  thread,    \* place of each event chain thread
  alive,     \* its mAlive
  wake,      \* its mSuspendSemaphore
  queue,     \* its events for E_RESTARTs, external and internal list together
  executing, \* the E_RESTART it executes
  event,     \* mEventToSend of each E_RESTART
  sem,       \* mSuspendSemaphore of each E_RESTART
  cmd,       \* the command in execution
  work,      \* what it has still to visit
  step,      \* place in the visit of the first of these
  handlers,  \* whether timer and socket handler run
  phase,     \* of the instance
  history    \* history: commands to and outputs of each E_RESTART

threadVars == <<thread, alive, wake, queue, executing>>
restartVars == <<event, sem, history>>
cmdVars == <<cmd, work, step>>
vars == <<state, fbs, threadVars, restartVars, cmdVars, handlers, phase>>

States == {"IDLE", "RUNNING", "STOPPED", "KILLED"}
NoCmd == [op |-> "none", target |-> Dev, by |-> "mgr"]
-----------------------------------------------------------------------------
(* The walk of a command *)

State(f) == [fb |-> f, part |-> "state"]
Thread(r) == [fb |-> r, part |-> "thread"]
Join(r) == [fb |-> r, part |-> "join"]

VisitResource(r) ==
  <<State(r)>> \o [i \in DOMAIN BlockList[r] |-> State(BlockList[r][i])] \o <<Thread(r)>>

\* The device has no thread of its own; RMT_DEV passes a Kill on to MGR.  Its
\* destructors end MGR, then the resources.
Walk ==
  <<State(Dev)>>
    \o FlattenSeq([i \in DOMAIN ResourceList |-> VisitResource(ResourceList[i])])
    \o <<State(Mgr), Thread(Mgr), Join(Mgr)>>
    \o [i \in DOMAIN ResourceList |-> Join(ResourceList[i])]

Within(f) == IF f = Dev THEN FBs \ {Mgr}
             ELSE IF f \in Resources THEN {f} \cup BlocksOf(f) ELSE {f}

Visit(op, target) ==
  {i \in DOMAIN Walk :
     /\ Walk[i].fb \in fbs
     /\ Walk[i].fb \in Within(target) \/ (op = "Kill" /\ target = Dev)
     /\ Walk[i].part = "join" <=> op = "Delete"}

VisitDestruction == {i \in DOMAIN Walk : Walk[i].part = "join" /\ Walk[i].fb \in fbs}

Current == Walk[Min(work)]

\* What follows once the contents of f need not be visited.
PassOver(f) ==
  {i \in work : Walk[i].fb # f /\ (f \in Resources => Walk[i].fb \notin BlocksOf(f))}

Accepts(op, s) ==
  CASE op = "Start" -> s \in {"IDLE", "STOPPED"}
    [] op \in {"Stop", "Kill"} -> s = "RUNNING"
    [] op = "Reset" -> s \in {"STOPPED", "KILLED"}

NextState(op) ==
  CASE op = "Start" -> "RUNNING" [] op = "Stop" -> "STOPPED"
    [] op = "Kill" -> "KILLED"   [] op = "Reset" -> "IDLE"

\* A faulty Equivalent, in no behaviour of the specification.
EquivalentForStop(op, s) == op = "Stop" /\ s = "KILLED"

\* checkForActionEquivalentState, asked of a contained block that refused.
Equivalent(op, s) ==
  \/ op = "Stop" /\ s = "KILLED"
  \/ op = "Kill" /\ s \in {"STOPPED", "IDLE"}

\* The block the command was addressed to answers itself; MGR is not asked.
GoesOn(op, f) == f = Mgr \/ (f # cmd.target /\ Equivalent(op, state[f]))
-----------------------------------------------------------------------------
(* What a considerate manager waits for and leaves alone *)

Resting(r) == thread[r] \in {"none", "ended"}
Suspended(r) == thread[r] = "suspended" /\ ~wake[r] /\ queue[r] = <<>>
Quiet == \A r \in Threads : Resting(r) \/ Suspended(r)

\* A running E_RESTART is only commanded while its thread can answer, an
\* idle one on its own only then, and no resource is deleted with its thread.
Considerate(op, f) ==
  /\ "quick" \notin Rough => Quiet
  /\ "stuck" \notin Rough =>
       \A b \in Within(f) \cap RestartFBs \cap fbs :
         state[b] = "RUNNING" \/ b = f => Suspended(ResourceOf(b))
  /\ "deleter" \notin Rough => (op = "Delete" => Resting(f))
-----------------------------------------------------------------------------
Init ==
  /\ state = [f \in FBs |-> IF f \in {Dev, Mgr} THEN "RUNNING" ELSE "IDLE"]
  /\ fbs = FBs
  /\ thread = [r \in Threads |-> IF r = Mgr THEN "suspended" ELSE "none"]
  /\ alive = [r \in Threads |-> r = Mgr]
  /\ wake = [r \in Threads |-> FALSE]
  /\ queue = [r \in Threads |-> <<>>]
  /\ executing = [r \in Threads |-> Dev]
  /\ event = [b \in RestartFBs |-> "none"]
  /\ sem = [b \in RestartFBs |-> FALSE]
  /\ cmd = NoCmd /\ work = {} /\ step = "visit"
  /\ handlers = TRUE
  /\ phase = "running"
  /\ history = [b \in RestartFBs |-> [last |-> "none", warm |-> FALSE, outs |-> <<>>]]
-----------------------------------------------------------------------------
(* The command's thread *)

Begin(op, f, by) ==
  /\ cmd' = [op |-> op, target |-> f, by |-> by]
  /\ work' = Visit(op, f)
  /\ step' = "visit"
  /\ handlers' = (handlers /\ ~(f = Dev /\ op = "Kill"))

\* CDevice::executeMGMCommand, in the thread of the management resource.
Command(op, f) ==
  /\ phase = "running" /\ cmd = NoCmd /\ handlers /\ thread[Mgr] = "suspended" /\ ~wake[Mgr]
  /\ f \in fbs
  /\ op = "Delete" => f \in Resources /\ state[f] # "RUNNING"
  /\ Considerate(op, f)
  /\ Begin(op, f, "mgr")
  /\ thread' = [thread EXCEPT ![Mgr] = "executing"]
  /\ UNCHANGED <<state, fbs, alive, wake, queue, executing, restartVars, phase>>

\* forteStopInstance
StopInstance ==
  /\ phase = "running" /\ cmd = NoCmd
  /\ "quick" \notin Rough => Quiet
  /\ Begin("Kill", Dev, "main")
  /\ phase' = "killing"
  /\ UNCHANGED <<state, fbs, threadVars, restartVars>>

CommandDone ==
  /\ cmd' = NoCmd /\ work' = {} /\ step' = "visit"
  /\ thread' = IF cmd.by = "mgr" THEN [thread EXCEPT ![Mgr] = "loop"] ELSE thread
  /\ phase' = IF cmd.by = "main" THEN "joining" ELSE phase

CurrentFB == Current.fb
Visiting(part) == cmd # NoCmd /\ work # {} /\ step = "visit" /\ Current.part = part

\* CFunctionBlock::changeFBExecutionState accepted
ChangeState ==
  LET f == CurrentFB IN
  /\ Visiting("state") /\ Accepts(cmd.op, state[f])
  /\ state' = [state EXCEPT ![f] = NextState(cmd.op)]
  /\ IF f \in RestartFBs
     THEN /\ step' = "announce"
          /\ history' = [history EXCEPT ![f] =
               [last |-> cmd.op,
                warm |-> IF cmd.op = "Start" THEN @.last = "Stop" ELSE @.warm,
                outs |-> IF cmd.op = "Start" THEN <<>> ELSE @.outs]]
          /\ UNCHANGED work
     ELSE work' = work \ {Min(work)} /\ UNCHANGED <<step, history>>
  /\ UNCHANGED <<fbs, threadVars, event, sem, cmd, handlers, phase>>

\* A refusal ends the walk, unless the block's state will do.
RefuseState ==
  LET f == CurrentFB IN
  /\ Visiting("state") /\ ~Accepts(cmd.op, state[f])
  /\ IF GoesOn(cmd.op, f)
     THEN work' = PassOver(f) /\ UNCHANGED <<cmd, step, thread, phase>>
     ELSE CommandDone
  /\ UNCHANGED <<state, fbs, alive, wake, queue, executing, restartVars, handlers>>

NextVisit == step' = "visit" /\ work' = work \ {Min(work)}

\* A faulty EventFor, in no behaviour of the specification.
EventKept(op, last) ==
  CASE op = "Start" -> IF last = "STOP" THEN "WARM" ELSE "COLD"
    [] op = "Stop" -> "STOP"
    [] OTHER -> last

\* E_RESTART::changeFBExecutionState, after its own state has changed
EventFor(op, last) ==
  CASE op = "Start" -> IF last = "STOP" THEN "WARM" ELSE "COLD"
    [] op = "Stop" -> "STOP"
    [] OTHER -> "none"

Announce ==
  LET b == CurrentFB IN
  /\ step = "announce"
  /\ event' = [event EXCEPT ![b] = EventFor(cmd.op, @)]
  /\ CASE cmd.op = "Start" -> step' = "chain" /\ UNCHANGED work
       [] cmd.op = "Stop" -> step' = "again" /\ UNCHANGED work
       [] OTHER -> NextVisit
  /\ UNCHANGED <<state, fbs, threadVars, sem, history, cmd, handlers, phase>>

\* A faulty KeepRunning, in no behaviour of the specification.
KeepStopped ==
  /\ step = "again"
  /\ step' = "chain"
  /\ UNCHANGED <<state, fbs, threadVars, restartVars, cmd, work, handlers, phase>>

\* Keeps the stopping block in the running state until STOP is delivered.
KeepRunning ==
  LET b == CurrentFB IN
  /\ step = "again"
  /\ state' = [state EXCEPT ![b] = IF Accepts("Start", @) THEN "RUNNING" ELSE @]
  /\ step' = "chain"
  /\ UNCHANGED <<fbs, threadVars, restartVars, cmd, work, handlers, phase>>

\* A faulty Executor, in no behaviour of the specification.
CallingExecutor(b) == IF cmd.by = "mgr" THEN Mgr ELSE ResourceOf(b)

\* getEventChainExecutor
Executor(b) == ResourceOf(b)

\* startEventChain, whose list may be full
StartNewEventChain ==
  LET b == CurrentFB
      r == Executor(b)
      room == Len(queue[r]) < QueueSize
  IN
  /\ step = "chain"
  /\ queue' = IF room THEN [queue EXCEPT ![r] = Append(@, b)] ELSE queue
  /\ wake' = IF room THEN [wake EXCEPT ![r] = TRUE] ELSE wake
  /\ IF cmd.op = "Stop" THEN step' = "wait" /\ UNCHANGED work ELSE NextVisit
  /\ UNCHANGED <<state, fbs, thread, alive, executing, restartVars, cmd, handlers, phase>>

WaitForStop ==
  LET b == CurrentFB IN
  /\ step = "wait" /\ sem[b]
  /\ sem' = [sem EXCEPT ![b] = FALSE]
  /\ NextVisit
  /\ UNCHANGED <<state, fbs, threadVars, event, history, cmd, handlers, phase>>

\* CEventChainExecutionThread::changeExecutionState, the end of a resource's walk
ChangeThread ==
  LET r == CurrentFB
      ends == cmd.op \in {"Stop", "Kill"}
  IN
  /\ Visiting("thread")
  /\ thread' = IF cmd.op = "Start" /\ thread[r] = "none"
               THEN [thread EXCEPT ![r] = "created"] ELSE thread
  /\ queue' = IF cmd.op = "Kill" THEN [queue EXCEPT ![r] = <<>>] ELSE queue
  /\ alive' = IF ends THEN [alive EXCEPT ![r] = FALSE] ELSE alive
  /\ wake' = IF ends THEN [wake EXCEPT ![r] = TRUE] ELSE wake
  /\ NextVisit
  /\ UNCHANGED <<state, fbs, executing, restartVars, cmd, handlers, phase>>

Respond ==
  /\ cmd # NoCmd /\ work = {}
  /\ CommandDone
  /\ UNCHANGED <<state, fbs, alive, wake, queue, executing, restartVars, handlers>>

\* CThreadBase::end, called by the destructor: no signal wakes the thread.
EndThread ==
  LET r == CurrentFB IN
  /\ work # {} /\ Current.part = "join" /\ step = "visit"
  /\ alive' = [alive EXCEPT ![r] = FALSE]
  /\ step' = "join"
  /\ UNCHANGED <<state, fbs, thread, wake, queue, executing, restartVars, cmd, work, handlers, phase>>

\* A faulty Joined, in no behaviour of the specification.
DeletedAtOnce ==
  LET r == CurrentFB IN
  /\ step = "join"
  /\ fbs' = fbs \ Within(r)
  /\ NextVisit
  /\ UNCHANGED <<state, threadVars, restartVars, cmd, handlers, phase>>

Joined ==
  LET r == CurrentFB IN
  /\ step = "join" /\ Resting(r)
  /\ fbs' = fbs \ Within(r)
  /\ NextVisit
  /\ UNCHANGED <<state, threadVars, restartVars, cmd, handlers, phase>>

\* joinResourceThread, then delete
JoinManager ==
  /\ phase = "joining" /\ Resting(Mgr)
  /\ phase' = "deleting"
  /\ work' = VisitDestruction
  /\ UNCHANGED <<state, fbs, threadVars, restartVars, cmd, step, handlers>>

InstanceEnded ==
  /\ phase = "deleting" /\ work = {}
  /\ phase' = "deleted"
  /\ fbs' = {}
  /\ UNCHANGED <<state, threadVars, restartVars, cmdVars, handlers>>

CommandThread ==
  \/ ChangeState \/ RefuseState \/ Announce \/ KeepRunning \/ StartNewEventChain
  \/ WaitForStop \/ ChangeThread \/ Respond \/ EndThread \/ Joined
  \/ JoinManager \/ InstanceEnded
-----------------------------------------------------------------------------
(* An event chain thread, and executeEvent of the E_RESTART it serves *)

ThreadAt(r, from, to) == thread[r] = from /\ thread' = [thread EXCEPT ![r] = to]
Untouched == <<fbs, cmdVars, handlers, phase>>

RunThread(r) ==
  /\ ThreadAt(r, "created", "loop")
  /\ alive' = [alive EXCEPT ![r] = TRUE]
  /\ UNCHANGED <<state, wake, queue, executing, restartVars, Untouched>>

Loop(r) ==
  /\ thread[r] = "loop"
  /\ thread' = [thread EXCEPT ![r] =
       IF ~alive[r] THEN "ended" ELSE IF queue[r] = <<>> THEN "suspended" ELSE "receive"]
  /\ UNCHANGED <<state, alive, wake, queue, executing, restartVars, Untouched>>

Resume(r) ==
  /\ wake[r] /\ ThreadAt(r, "suspended", "loop")
  /\ wake' = [wake EXCEPT ![r] = FALSE]
  /\ UNCHANGED <<state, alive, queue, executing, restartVars, Untouched>>

\* A Kill may have cleared the list since Loop looked at it.
Receive(r) ==
  LET b == Head(queue[r]) IN
  /\ thread[r] = "receive"
  /\ IF queue[r] # <<>> /\ state[b] = "RUNNING" /\ event[b] # "none"
     THEN /\ thread' = [thread EXCEPT ![r] = "send"]
          /\ executing' = [executing EXCEPT ![r] = b]
     ELSE thread' = [thread EXCEPT ![r] = "loop"] /\ UNCHANGED executing
  /\ queue' = IF queue[r] = <<>> THEN queue ELSE [queue EXCEPT ![r] = Tail(@)]
  /\ UNCHANGED <<state, alive, wake, restartVars, Untouched>>

\* sendOutputEvent; no event has the number cg_nInvalidEventID
SendEvent(r) ==
  LET b == executing[r] IN
  /\ ThreadAt(r, "send", "test")
  /\ history' = IF event[b] = "none" THEN history
                ELSE [history EXCEPT ![b].outs = Append(@, event[b])]
  /\ UNCHANGED <<state, alive, wake, queue, executing, event, sem, Untouched>>

IsStop(e) == e = "STOP"

TestForStop(r) ==
  /\ thread[r] = "test"
  /\ thread' = [thread EXCEPT ![r] = IF IsStop(event[executing[r]]) THEN "stop" ELSE "loop"]
  /\ UNCHANGED <<state, alive, wake, queue, executing, restartVars, Untouched>>

StopBlock(r) ==
  /\ ThreadAt(r, "stop", "release")
  /\ state' = [state EXCEPT ![executing[r]] = IF Accepts("Stop", @) THEN "STOPPED" ELSE @]
  /\ UNCHANGED <<alive, wake, queue, executing, restartVars, Untouched>>

ReleaseManager(r) ==
  /\ ThreadAt(r, "release", "loop")
  /\ sem' = [sem EXCEPT ![executing[r]] = TRUE]
  /\ UNCHANGED <<state, alive, wake, queue, executing, event, history, Untouched>>

EcetThread(r) ==
  \/ RunThread(r) \/ Loop(r) \/ Resume(r) \/ Receive(r) \/ SendEvent(r)
  \/ TestForStop(r) \/ StopBlock(r) \/ ReleaseManager(r)

Next ==
  \/ \E c \in Commands : Command(c[1], c[2])
  \/ StopInstance
  \/ CommandThread
  \/ \E r \in Threads : EcetThread(r)

Spec == Init /\ [][Next]_vars

\* All threads have one priority above the idle task (forte_thread.cpp:21) and
\* block only where their actions do; nobody need ever give a command.
FairSpec ==
  /\ Spec
  /\ WF_vars(CommandThread)
  /\ \A r \in Threads : WF_vars(EcetThread(r))
-----------------------------------------------------------------------------
(* Properties *)

\* Types of the state of resource.h, funcbloc.h, threadbase.h and E_RESTART.h.
TypeOK ==
  /\ state \in [FBs -> States]
  /\ fbs \subseteq FBs
  /\ thread \in [Threads -> {"none", "created", "loop", "suspended", "receive", "send",
                             "test", "stop", "release", "executing", "ended"}]
  /\ alive \in [Threads -> BOOLEAN] /\ wake \in [Threads -> BOOLEAN]
  /\ \A r \in Resources : queue[r] \in Seq(RestartFBs \cap BlocksOf(r))
  /\ queue[Mgr] = <<>>
  /\ \A r \in Threads : thread[r] \in {"send", "test", "stop", "release"} =>
                         executing[r] \in RestartFBs \cap BlocksOf(r)
  /\ event \in [RestartFBs -> {"none", "COLD", "WARM", "STOP"}]
  /\ sem \in [RestartFBs -> BOOLEAN]
  /\ cmd.target \in FBs /\ handlers \in BOOLEAN
  /\ work \subseteq DOMAIN Walk
  /\ step \in {"visit", "announce", "again", "chain", "wait", "join"}
  /\ phase \in {"running", "killing", "joining", "deleting", "deleted"}
  /\ \A r \in Threads : Len(queue[r]) <= QueueSize

\* Nothing is destroyed under a thread: the destructor of a resource joins its
\* thread before the blocks go, and no command starts the thread again after
\* that (resource.cpp:58, threadbase.tpp:27, fbcontainer.cpp:40), however
\* inconsiderate the manager.
NoThreadOutlives ==
  \A r \in Threads :
    /\ r \notin fbs => Resting(r)
    /\ thread[r] \in {"send", "test", "stop", "release"} => executing[r] \in fbs
    /\ ~Resting(r) => \A i \in DOMAIN queue[r] : queue[r][i] \in fbs

\* Between a Start and the command after the next Stop an E_RESTART sends at
\* most one COLD, or WARM if it had been stopped, and one STOP, in that order.
\* Its semaphore is given only after STOP has been sent (E_RESTART.cpp:54), so
\* that a confirmed Stop was announced.
AnnouncedInOrder ==
  \A b \in RestartFBs :
    LET h == history[b]
        first == IF h.warm THEN "WARM" ELSE "COLD"
    IN  /\ h.outs \in {<<>>, <<first>>, <<first, "STOP">>}
        /\ Len(h.outs) = 2 => h.last # "Start"
        /\ sem[b] => h.outs = <<first, "STOP">>

\* Every command of a considerate manager is answered, the Stop of an
\* E_RESTART waiting in it included (E_RESTART.cpp:75).
CommandsAnswered == cmd # NoCmd ~> cmd = NoCmd

\* The tree can be killed: nothing was killed before, and no thread outlives
\* the running state of its resource.
Orderly ==
  /\ state[Dev] = "RUNNING" /\ \A f \in fbs : state[f] # "KILLED"
  /\ \A r \in Resources \cap fbs : state[r] = "RUNNING" \/ Resting(r)

\* forteStopInstance of an orderly device returns: the Kill gets as far as MGR,
\* whose thread ends, and the destructors join no thread that is asleep
\* (forte_Init.cpp:97, RMT_DEV.cpp:50, threadbase.tpp:46).
OrderlyInstanceEnds ==
  phase = "killing" /\ work = Visit("Kill", Dev) /\ Orderly ~> phase = "deleted"

\* forte_Init.h:61 says of forteStopInstance "Terminates a Forte instance".
InstanceEnds == phase = "killing" ~> phase = "deleted"
=============================================================================
