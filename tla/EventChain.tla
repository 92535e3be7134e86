----------------------------- MODULE EventChain -----------------------------
(***************************************************************************)
(* The event chain execution thread ("ecet") of a resource:                *)
(* src/src/core/ecet.cpp, ecet.h, the thread it runs on                    *)
(* (src/src/arch/threadbase.tpp) and the resource that starts, stops and   *)
(* kills it (src/src/core/resource.cpp, funcbloc.cpp).                     *)
(*                                                                         *)
(* Three kinds of actor share the state:                                   *)
(*   - the ecet thread, one action per step of run(), mainRun() and        *)
(*     transferExternalEvents(), its place in the code held by pc;         *)
(*   - the sources of external events (timer task, communication handlers, *)
(*     other resources' ecets), each calling startEventChain;              *)
(*   - the management thread (device manager), calling                     *)
(*     CResource::changeFBExecutionState, its place held by mgmt.          *)
(*                                                                         *)
(* A critical section on mExternalEventListSync that makes no other call   *)
(* is one action, guarded by the lock being free; only the transfer, which *)
(* loops, holds the lock over several actions.                             *)
(***************************************************************************)
EXTENDS EventRing

CONSTANTS IntSize,    \* cg_nEventChainEventListSize
          ExtSize,    \* cg_nEventChainExternalEventListSize
          Load,       \* the most events the application ever has outstanding
          Commands    \* the management commands issued

ASSUME SizeAssumption == /\ IntSize \in Nat /\ IntSize >= 2
                         /\ ExtSize \in Nat /\ ExtSize >= 2
ASSUME LoadAssumption == Load \in Nat
\* "Revive" is the Reset of a killed resource.
ASSUME CommandAssumption ==
         Commands \subseteq {"Start", "Stop", "Kill", "Reset", "Revive"}

VARIABLES
  \* CEventChainExecutionThread
  mEventList,             \* internal ring: only the ecet thread (and clear())
  mExternalEventList,     \* external ring: under mExternalEventListSync
  mExternalEventListSync, \* "free" or "ecet"
  mSuspendSemaphore,      \* binary semaphore: 0 or 1
  mProcessingEvents,
  \* CThreadBase
  mAlive,
  mThreadHandle,          \* TRUE once a thread has been created
  pc,                     \* where the ecet thread is
  \* CResource and its manager
  mFBState,
  mgmt                    \* where changeFBExecutionState is

ringVars   == <<mEventList, mExternalEventList, mExternalEventListSync>>
threadVars == <<mAlive, mThreadHandle, pc>>
mgmtVars   == <<mFBState, mgmt>>
vars == <<mEventList, mExternalEventList, mExternalEventListSync,
          mSuspendSemaphore, mProcessingEvents, mAlive, mThreadHandle, pc,
          mFBState, mgmt>>

ThreadStates == {"none", "created", "loop", "check", "lock", "transfer",
                 "select", "suspend", "deliver", "execute", "advance",
                 "exit", "ended", "fault"}
MgmtStates == {"idle", "zero", "reset", "clear", "setAlive", "resume"}
FBStates == {"IDLE", "RUNNING", "STOPPED", "KILLED"}

TypeOK ==
  /\ mEventList \in Ring(IntSize)
  /\ mExternalEventList \in Ring(ExtSize)
  /\ mExternalEventListSync \in {"free", "ecet"}
  /\ mSuspendSemaphore \in {0, 1}
  /\ mProcessingEvents \in BOOLEAN
  /\ mAlive \in BOOLEAN
  /\ mThreadHandle \in BOOLEAN
  /\ pc \in ThreadStates
  /\ mFBState \in FBStates
  /\ mgmt \in MgmtStates

Init ==
  /\ mEventList = EmptyRing(IntSize)
  /\ mExternalEventList = EmptyRing(ExtSize)
  /\ mExternalEventListSync = "free"
  /\ mSuspendSemaphore = 0
  /\ mProcessingEvents = FALSE
  /\ mAlive = FALSE
  /\ mThreadHandle = FALSE
  /\ pc = "none"
  /\ mFBState = "IDLE"
  /\ mgmt = "idle"

-----------------------------------------------------------------------------
(* The environment's load: an application that never has more than Load    *)
(* entries in the two lists together.  Nothing in the code enforces it.    *)
Outstanding == Count(mEventList, IntSize) + Count(mExternalEventList, ExtSize)
WithinLoad == Outstanding < Load

ListLocked == mExternalEventListSync # "free"

(* xSemaphoreGive on a binary semaphore: a second give is lost.            *)
\* A faulty ResumeSelfSuspend, in no behaviour of the specification.
ResumeForgotten == UNCHANGED mSuspendSemaphore
ResumeSelfSuspend == mSuspendSemaphore' = 1

(* startEventChain, the whole critical region; a full list drops the event *)
(* and changes nothing.                                                    *)
StartEventChain(e) ==
  /\ WithinLoad
  /\ ~ListLocked
  /\ Accepts(mExternalEventList)
  /\ mExternalEventList' = Add(mExternalEventList, ExtSize, e)
  /\ mProcessingEvents' = TRUE
  /\ ResumeSelfSuspend
  /\ UNCHANGED <<mEventList, mExternalEventListSync, threadVars, mgmtVars>>

-----------------------------------------------------------------------------
(* The ecet thread.                                                        *)

(* CThreadBase::runThread up to run().                                     *)
RunThread ==
  /\ pc = "created"
  /\ pc' = "loop"
  /\ mAlive' = TRUE
  /\ UNCHANGED <<ringVars, mSuspendSemaphore, mProcessingEvents,
                 mThreadHandle, mgmtVars>>

(* while(isAlive()) of run().                                              *)
\* A faulty RunLoop, in no behaviour of the specification.
RunLoopForever ==
  /\ pc = "loop"
  /\ pc' = "check"
  /\ UNCHANGED <<ringVars, mSuspendSemaphore, mProcessingEvents, mAlive,
                 mThreadHandle, mgmtVars>>
RunLoop ==
  /\ pc = "loop"
  /\ pc' = IF mAlive THEN "check" ELSE "exit"
  /\ UNCHANGED <<ringVars, mSuspendSemaphore, mProcessingEvents, mAlive,
                 mThreadHandle, mgmtVars>>

(* The rest of runThread after run() returns.                              *)
EndThread ==
  /\ pc = "exit"
  /\ pc' = "ended"
  /\ mAlive' = FALSE
  /\ UNCHANGED <<ringVars, mSuspendSemaphore, mProcessingEvents,
                 mThreadHandle, mgmtVars>>

(* mainRun's externalEventOccured(): compares the two pointers without     *)
(* taking the lock.                                                        *)
ExternalEventOccured ==
  /\ pc = "check"
  /\ pc' = IF mExternalEventList.start # mExternalEventList.end
             THEN "lock" ELSE "select"
  /\ UNCHANGED <<ringVars, mSuspendSemaphore, mProcessingEvents, mAlive,
                 mThreadHandle, mgmtVars>>

(* transferExternalEvents: enter the critical region ...                   *)
TransferLock ==
  /\ pc = "lock"
  /\ ~ListLocked
  /\ mExternalEventListSync' = "ecet"
  /\ pc' = "transfer"
  /\ UNCHANGED <<mEventList, mExternalEventList, mSuspendSemaphore,
                 mProcessingEvents, mAlive, mThreadHandle, mgmtVars>>

(* ... move entries while Start differs from End (on a zero entry the      *)
(* code's loop would spin with the lock held: no step here) ...            *)
TransferEntry ==
  /\ pc = "transfer"
  /\ mExternalEventList.start # mExternalEventList.end
  /\ mExternalEventList.list[mExternalEventList.start] # NoEvent
  /\ mEventList' = Add(mEventList, IntSize,
                       mExternalEventList.list[mExternalEventList.start])
  /\ mExternalEventList' = RemoveFirst(mExternalEventList, ExtSize)
  /\ UNCHANGED <<mExternalEventListSync, mSuspendSemaphore,
                 mProcessingEvents, threadVars, mgmtVars>>

(* ... and take the entry a full ring still holds at End, then leave.      *)
\* A faulty LastEntryTaken, in no behaviour of the specification.
LastEntryLeft == UNCHANGED <<mEventList, mExternalEventList>>
LastEntryTaken ==
  LET first == mExternalEventList.list[mExternalEventList.start] IN
  IF first # NoEvent
    THEN /\ mEventList' = Add(mEventList, IntSize, first)
         /\ mExternalEventList' = ClearFirst(mExternalEventList)
    ELSE UNCHANGED <<mEventList, mExternalEventList>>

TransferLast ==
  /\ pc = "transfer"
  /\ mExternalEventList.start = mExternalEventList.end
  /\ LastEntryTaken
  /\ mExternalEventListSync' = "free"
  /\ pc' = "select"
  /\ UNCHANGED <<mSuspendSemaphore, mProcessingEvents, mAlive, mThreadHandle,
                 mgmtVars>>

(* mainRun: is there an event to deliver?                                  *)
SelectEvent ==
  /\ pc = "select"
  /\ IF mEventList.end = mEventList.start
       THEN /\ pc' = "suspend"
            /\ mProcessingEvents' = FALSE
       ELSE /\ pc' = IF mEventList.list[mEventList.start] # NoEvent
                       THEN "deliver" ELSE "advance"
            /\ UNCHANGED mProcessingEvents
  /\ UNCHANGED <<ringVars, mSuspendSemaphore, mAlive, mThreadHandle, mgmtVars>>

SelfSuspend ==
  /\ pc = "suspend"
  /\ mSuspendSemaphore = 1
  /\ mSuspendSemaphore' = 0
  /\ mProcessingEvents' = TRUE
  /\ pc' = "loop"
  /\ UNCHANGED <<ringVars, mAlive, mThreadHandle, mgmtVars>>

(* receiveInputEvent on the Start entry's block: the entry is read again   *)
(* after the null check of SelectEvent.                                    *)
Deliver ==
  /\ pc = "deliver"
  /\ pc' = IF mEventList.list[mEventList.start] # NoEvent
             THEN "execute" ELSE "fault"
  /\ UNCHANGED <<ringVars, mSuspendSemaphore, mProcessingEvents, mAlive,
                 mThreadHandle, mgmtVars>>

(* addEventEntry, called back from the executing function block for every  *)
(* connected input event of an output event it sends.  Which events, and   *)
(* how many, is the application's choice within its load; none at all is   *)
(* what a block that is not running does.                                  *)
AddEventEntry(e) ==
  /\ pc = "execute"
  /\ WithinLoad
  /\ mEventList' = Add(mEventList, IntSize, e)
  /\ UNCHANGED <<mExternalEventList, mExternalEventListSync,
                 mSuspendSemaphore, mProcessingEvents, threadVars, mgmtVars>>

(* receiveInputEvent returns.                                              *)
ExecutionDone ==
  /\ pc = "execute"
  /\ pc' = "advance"
  /\ UNCHANGED <<ringVars, mSuspendSemaphore, mProcessingEvents, mAlive,
                 mThreadHandle, mgmtVars>>

(* Zero the Start entry, then step Start.                                  *)
AdvanceStart ==
  /\ pc = "advance"
  /\ mEventList' = RemoveFirst(mEventList, IntSize)
  /\ pc' = "loop"
  /\ UNCHANGED <<mExternalEventList, mExternalEventListSync,
                 mSuspendSemaphore, mProcessingEvents, mAlive, mThreadHandle,
                 mgmtVars>>

EcetThread ==
  \/ RunThread \/ RunLoop \/ EndThread
  \/ ExternalEventOccured \/ TransferLock \/ TransferEntry \/ TransferLast
  \/ SelectEvent \/ SelfSuspend \/ Deliver
  \/ (\E e \in Event : AddEventEntry(e))
  \/ ExecutionDone \/ AdvanceStart

-----------------------------------------------------------------------------
(* The management thread.  The function blocks the resource contains       *)
(* change state with it and are not told apart here.                       *)

(* CThreadBase::start: a thread only if there never was one.               *)
CreateThread ==
  IF ~mThreadHandle
    THEN mThreadHandle' = TRUE /\ pc' = "created"
    ELSE UNCHANGED <<mThreadHandle, pc>>

StartResource ==
  /\ "Start" \in Commands
  /\ mgmt = "idle"
  /\ mFBState \in {"IDLE", "STOPPED"}
  /\ mFBState' = "RUNNING"
  /\ IF mAlive THEN UNCHANGED <<mThreadHandle, pc>> ELSE CreateThread
  /\ UNCHANGED <<ringVars, mSuspendSemaphore, mProcessingEvents, mAlive, mgmt>>

StopResource ==
  /\ "Stop" \in Commands
  /\ mgmt = "idle"
  /\ mFBState = "RUNNING"
  /\ mFBState' = "STOPPED"
  /\ mgmt' = "setAlive"
  /\ UNCHANGED <<ringVars, mSuspendSemaphore, mProcessingEvents, threadVars>>

KillResource ==
  /\ "Kill" \in Commands
  /\ mgmt = "idle"
  /\ mFBState = "RUNNING"
  /\ mFBState' = "KILLED"
  /\ mgmt' = "zero"
  /\ UNCHANGED <<ringVars, mSuspendSemaphore, mProcessingEvents, threadVars>>

(* Reset does not concern the ecet (default: break).                       *)
ResetResource ==
  /\ mgmt = "idle"
  /\ \/ mFBState = "STOPPED" /\ "Reset" \in Commands
     \/ mFBState = "KILLED" /\ "Revive" \in Commands
  /\ mFBState' = "IDLE"
  /\ UNCHANGED <<ringVars, mSuspendSemaphore, mProcessingEvents, threadVars,
                 mgmt>>

(* clear(): memset of the internal list, reset of its pointers, and the    *)
(* external list under its lock.                                           *)
ClearZero ==
  /\ mgmt = "zero"
  /\ mEventList' = ZeroList(mEventList, IntSize)
  /\ mgmt' = "reset"
  /\ UNCHANGED <<mExternalEventList, mExternalEventListSync,
                 mSuspendSemaphore, mProcessingEvents, threadVars, mFBState>>

ClearReset ==
  /\ mgmt = "reset"
  /\ mEventList' = ResetPointers(mEventList, IntSize)
  /\ mgmt' = "clear"
  /\ UNCHANGED <<mExternalEventList, mExternalEventListSync,
                 mSuspendSemaphore, mProcessingEvents, threadVars, mFBState>>

ClearExternal ==
  /\ mgmt = "clear"
  /\ ~ListLocked
  /\ mExternalEventList' = EmptyRing(ExtSize)
  /\ mgmt' = "setAlive"
  /\ UNCHANGED <<mEventList, mExternalEventListSync, mSuspendSemaphore,
                 mProcessingEvents, threadVars, mFBState>>

SetNotAlive ==
  /\ mgmt = "setAlive"
  /\ mAlive' = FALSE
  /\ mgmt' = "resume"
  /\ UNCHANGED <<ringVars, mSuspendSemaphore, mProcessingEvents,
                 mThreadHandle, pc, mFBState>>

\* A faulty ResumeAfterStop, in no behaviour of the specification.
StopUnsignalled ==
  /\ mgmt = "resume"
  /\ mgmt' = "idle"
  /\ UNCHANGED <<ringVars, mSuspendSemaphore, mProcessingEvents, threadVars,
                 mFBState>>
ResumeAfterStop ==
  /\ mgmt = "resume"
  /\ ResumeSelfSuspend
  /\ mgmt' = "idle"
  /\ UNCHANGED <<ringVars, mProcessingEvents, threadVars, mFBState>>

Management ==
  \/ StartResource \/ StopResource \/ KillResource \/ ResetResource
  \/ ClearZero \/ ClearReset \/ ClearExternal
  \/ SetNotAlive \/ ResumeAfterStop

Next == \/ \E e \in Event : StartEventChain(e)
        \/ EcetThread
        \/ Management

Spec == Init /\ [][Next]_vars

(* The scheduler runs the ready ecet thread, function block executions     *)
(* return, and a management call once begun is finished.  Nobody owes an   *)
(* external event or a management command.                                 *)
MgmtSteps == ClearZero \/ ClearReset \/ ClearExternal \/ SetNotAlive
             \/ ResumeAfterStop
FairSpec == Spec /\ WF_vars(EcetThread) /\ WF_vars(MgmtSteps)

-----------------------------------------------------------------------------
(* The external list is contiguous, a transfer in progress never meets the *)
(* zero entry on which it would spin with the lock held, and whenever the  *)
(* lock is free a full list is really full: it never turns into the "event *)
(* locker" the header of ecet.cpp says was fixed.                          *)
ExternalListSound ==
  /\ Contiguous(mExternalEventList, ExtSize)
  /\ ~ListLocked => Unlocked(mExternalEventList, ExtSize)

(* An ecet that is about to wait, or waits, on mSuspendSemaphore although  *)
(* an external event is in the list has been signalled: comparing the      *)
(* pointers without the lock (externalEventOccured) loses no wake-up.      *)
NoLostWakeup ==
  pc \in {"select", "suspend"}
    /\ mExternalEventList.start # mExternalEventList.end
  => mSuspendSemaphore = 1

(* A stop that has been carried out finds no ecet asleep for good: while   *)
(* mAlive is FALSE and changeExecutionState has returned, a suspended ecet *)
(* has the semaphore to go on and see the flag.                            *)
StopNotSleptThrough ==
  pc = "suspend" /\ ~mAlive /\ mgmt = "idle" => mSuspendSemaphore = 1

(* The internal list holds its events in the slots from Start to End.      *)
InternalListContiguous == Contiguous(mEventList, IntSize)

(* Until the resource is killed: when mainRun takes the internal list for  *)
(* empty (End = Start) it is, no event is left in it and the next one      *)
(* added will be accepted.                                                 *)
EmptyMeansEmpty ==
  mFBState # "KILLED" /\ mEventList.end = mEventList.start =>
    Accepts(mEventList)

(* The entry mainRun checked is still there when it dereferences it.       *)
NoNullDelivery == pc # "fault"

(* The promise of EventQueue: the two rings are two FIFO queues and the    *)
(* head of the internal one is executing from the dereference until Start  *)
(* moves on; a Kill, which empties the lists under the thread, is the end  *)
(* of the promise.                                                         *)
Queue == INSTANCE EventQueue WITH
           ChainCapacity    <- IntSize,
           ExternalCapacity <- ExtSize,
           accepted  <- Contents(mExternalEventList, ExtSize),
           chain     <- Contents(mEventList, IntSize),
           executing <- pc \in {"execute", "advance"}

ImplementsEventQueue ==
  /\ Queue!QueueInit
  /\ [][mFBState' = "KILLED" \/ Queue!QueueNext]_(Queue!queueVars)

(* While the resource runs and has a thread (StartRunsThread below is      *)
(* about the start that finds an ended one), an accepted external event    *)
(* does not stay in the external list for ever ...                         *)
ExternalEventsTransferred ==
  \A i \in 0 .. ExtSize - 1 :
    mFBState = "RUNNING" /\ mExternalEventList.list[i] # NoEvent ~>
      \/ mFBState # "RUNNING" \/ pc = "ended"
      \/ mExternalEventList.list[i] = NoEvent

(* ... and every entry of the internal list is in the end taken out of it, *)
(* whatever the executing blocks add behind it.                            *)
ChainEventsDelivered ==
  \A i \in 0 .. IntSize - 1 :
    mFBState = "RUNNING" /\ mEventList.list[i] # NoEvent ~>
      \/ mFBState # "RUNNING" \/ pc = "ended"
      \/ mEventList.list[i] = NoEvent

(* A Stop ends a thread that had begun to run when it cleared the flag     *)
(* ("end thread in both cases", ecet.cpp; the first line of runThread sets *)
(* the flag again, and a thread yet to run it never ends), whatever is     *)
(* started and stopped meanwhile.  The other case, Kill, ends this one's   *)
(* promise: its clear() can make the thread dereference a null entry.      *)
StopEndsRunningThread ==
  mgmt = "setAlive" /\ mFBState = "STOPPED" /\ pc \notin {"none", "created"}
    ~> pc = "ended" \/ mFBState = "KILLED"

(* A started resource that is not stopped again has an ecet that runs.     *)
StartRunsThread ==
  mFBState = "RUNNING" ~>
    \/ mFBState # "RUNNING"
    \/ pc \notin {"none", "created", "exit", "ended"}
=============================================================================
