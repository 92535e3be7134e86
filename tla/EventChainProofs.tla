-------------------------- MODULE EventChainProofs --------------------------
(***************************************************************************)
(* Proofs about EventChain, for every size of the two lists, every set of  *)
(* events and every set of management commands.                            *)
(*                                                                         *)
(* SyncInv is what the lock, the semaphore and the alive flag preserve     *)
(* whatever the management thread does; DeliverInv is what holds of the    *)
(* internal list as long as it is not cleared under the ecet (no Kill),    *)
(* full or not; ChainInv what holds besides when the application's load    *)
(* stays below the list's size.                                            *)
(* Under those two conditions EventChain implements EventQueue: the two    *)
(* rings, the lock and the semaphore behave as two queues from which no    *)
(* event is lost, taken twice or overtaken.                                *)
(***************************************************************************)
EXTENDS EventChain, EventRingProofs, SequenceTheorems

InMainRun == {"check", "lock", "transfer", "select", "deliver", "execute",
              "advance"}

HandleInv == ~mThreadHandle => pc = "none"
LockInv == ListLocked <=> pc = "transfer"
WakeInv == /\ pc \in {"select", "suspend", "deliver", "execute", "advance"}
           /\ mExternalEventList.start # mExternalEventList.end
           => mSuspendSemaphore = 1
StopInv == pc \in InMainRun \cup {"suspend"} /\ ~mAlive /\ mgmt # "resume"
           => mSuspendSemaphore = 1

SyncInv == /\ TypeOK
           /\ HandleInv
           /\ LockInv
           /\ ExternalListSound
           /\ WakeInv
           /\ StopInv

DeliverInv ==
  /\ mgmt \notin {"zero", "reset", "clear"}
  /\ InternalListContiguous
  /\ pc \in {"deliver", "execute", "advance"} =>
       mEventList.start # mEventList.end
  /\ pc # "fault"

ChainInv ==
  /\ mgmt \notin {"zero", "reset", "clear"}
  /\ InternalListContiguous
  /\ Accepts(mEventList)
  /\ Outstanding <= Load
  /\ pc \in {"deliver", "execute", "advance"} =>
       mEventList.start # mEventList.end
  /\ pc # "fault"

-----------------------------------------------------------------------------
(* Every step keeps the variables typed.                                   *)
THEOREM TypeCorrect == Spec => []TypeOK
  <1>1. Init => TypeOK
    BY SizeAssumption, EmptyRingSound
       DEF Init, TypeOK, ThreadStates, MgmtStates, FBStates
  <1>2. TypeOK /\ [Next]_vars => TypeOK'
    <2> SUFFICES ASSUME TypeOK, [Next]_vars PROVE TypeOK'
      OBVIOUS
    <2>1. ASSUME NEW e \in Event, StartEventChain(e) PROVE TypeOK'
      <3>1. Add(mExternalEventList, ExtSize, e) \in Ring(ExtSize)
        BY SizeAssumption, OperationsTyped DEF TypeOK
      <3> QED
        BY <2>1, <3>1 DEF StartEventChain, ResumeSelfSuspend, threadVars,
                          mgmtVars, TypeOK
    <2>2. ASSUME EcetThread PROVE TypeOK'
      <3>1. CASE RunThread \/ RunLoop \/ EndThread \/ ExternalEventOccured
                 \/ TransferLock \/ SelectEvent \/ SelfSuspend \/ Deliver
                 \/ ExecutionDone
        BY <3>1 DEF RunThread, RunLoop, EndThread, ExternalEventOccured,
                    TransferLock, SelectEvent, SelfSuspend, Deliver,
                    ExecutionDone, TypeOK, ThreadStates, ringVars, mgmtVars
      <3>2. CASE TransferEntry
        <4>1. mExternalEventList.list[mExternalEventList.start] \in Event
          BY <3>2, SizeAssumption, OperationsTyped DEF TransferEntry, TypeOK
        <4>2. mEventList' \in Ring(IntSize)
          BY <3>2, <4>1, SizeAssumption, OperationsTyped
             DEF TransferEntry, TypeOK
        <4>3. mExternalEventList' \in Ring(ExtSize)
          BY <3>2, SizeAssumption, OperationsTyped DEF TransferEntry, TypeOK
        <4> QED
          BY <3>2, <4>2, <4>3 DEF TransferEntry, threadVars, mgmtVars, TypeOK
      <3>3. CASE TransferLast
        <4>1. mEventList' \in Ring(IntSize)
          BY <3>3, SizeAssumption, OperationsTyped
             DEF TransferLast, LastEntryTaken, TypeOK
        <4>2. mExternalEventList' \in Ring(ExtSize)
          BY <3>3, SizeAssumption, OperationsTyped
             DEF TransferLast, LastEntryTaken, TypeOK
        <4> QED
          BY <3>3, <4>1, <4>2 DEF TransferLast, mgmtVars, TypeOK, ThreadStates
      <3>4. ASSUME NEW e \in Event, AddEventEntry(e) PROVE TypeOK'
        <4>1. mEventList' \in Ring(IntSize)
          BY <3>4, SizeAssumption, OperationsTyped DEF AddEventEntry, TypeOK
        <4> QED
          BY <3>4, <4>1 DEF AddEventEntry, threadVars, mgmtVars, TypeOK
      <3>5. CASE AdvanceStart
        <4>1. mEventList' \in Ring(IntSize)
          BY <3>5, SizeAssumption, OperationsTyped DEF AdvanceStart, TypeOK
        <4> QED
          BY <3>5, <4>1 DEF AdvanceStart, mgmtVars, TypeOK, ThreadStates
      <3> QED
        BY <2>2, <3>1, <3>2, <3>3, <3>4, <3>5 DEF EcetThread
    <2>3. ASSUME Management PROVE TypeOK'
      <3>1. CASE StartResource \/ StopResource \/ KillResource
                 \/ ResetResource \/ SetNotAlive \/ ResumeAfterStop
        BY <3>1 DEF StartResource, CreateThread, StopResource, KillResource,
                    ResetResource, SetNotAlive, ResumeAfterStop,
                    ResumeSelfSuspend, TypeOK, ThreadStates, MgmtStates,
                    FBStates, ringVars, threadVars
      <3>2. CASE ClearZero \/ ClearReset
        <4>1. mEventList' \in Ring(IntSize)
          BY <3>2, SizeAssumption, OperationsTyped
             DEF ClearZero, ClearReset, TypeOK
        <4> QED
          BY <3>2, <4>1 DEF ClearZero, ClearReset, TypeOK, MgmtStates,
                            threadVars
      <3>3. CASE ClearExternal
        BY <3>3, SizeAssumption, EmptyRingSound
           DEF ClearExternal, TypeOK, MgmtStates, threadVars
      <3> QED
        BY <2>3, <3>1, <3>2, <3>3 DEF Management
    <2>4. CASE UNCHANGED vars
      BY <2>4 DEF vars, TypeOK
    <2> QED
      BY <2>1, <2>2, <2>3, <2>4 DEF Next
  <1> QED
    BY <1>1, <1>2, PTL DEF Spec

-----------------------------------------------------------------------------
(* SyncInv is inductive.                                                   *)
LEMMA SyncInit == Init => SyncInv
  BY SizeAssumption, EmptyRingSound
     DEF Init, SyncInv, TypeOK, ThreadStates, MgmtStates, FBStates, HandleInv,
         LockInv, ListLocked, ExternalListSound, WakeInv, StopInv, InMainRun

LEMMA SyncStep == SyncInv /\ TypeOK' /\ [Next]_vars => SyncInv'
  <1> SUFFICES ASSUME SyncInv, TypeOK', [Next]_vars
               PROVE  HandleInv' /\ LockInv' /\ ExternalListSound'
                      /\ WakeInv' /\ StopInv'
    BY DEF SyncInv
  <1> USE DEF SyncInv
  <1>1. ASSUME NEW e \in Event, StartEventChain(e)
        PROVE  HandleInv' /\ LockInv' /\ ExternalListSound'
               /\ WakeInv' /\ StopInv'
    <2>1. ExternalListSound'
      BY <1>1, SizeAssumption, AddSound
         DEF StartEventChain, ExternalListSound, ListLocked, TypeOK
    <2> QED
      BY <1>1, <2>1
         DEF StartEventChain, ResumeSelfSuspend, threadVars, mgmtVars,
             HandleInv, LockInv, ListLocked, WakeInv, StopInv
  <1>2. ASSUME EcetThread
        PROVE  HandleInv' /\ LockInv' /\ ExternalListSound'
               /\ WakeInv' /\ StopInv'
    <2>1. CASE RunThread \/ RunLoop \/ EndThread \/ SelfSuspend
      BY <2>1 DEF RunThread, RunLoop, EndThread, SelfSuspend, ringVars,
                  mgmtVars, HandleInv, LockInv, ListLocked, ExternalListSound,
                  WakeInv, StopInv, InMainRun
    <2>2. CASE ExternalEventOccured
      BY <2>2 DEF ExternalEventOccured, ringVars, mgmtVars, HandleInv, LockInv,
                  ListLocked, ExternalListSound, WakeInv, StopInv, InMainRun
    <2>3. CASE SelectEvent \/ Deliver \/ ExecutionDone
      BY <2>3 DEF SelectEvent, Deliver, ExecutionDone, ringVars, mgmtVars,
                  HandleInv, LockInv, ListLocked, ExternalListSound, WakeInv,
                  StopInv, InMainRun
    <2>4. CASE TransferLock
      BY <2>4 DEF TransferLock, mgmtVars, HandleInv, LockInv, ListLocked,
                  ExternalListSound, WakeInv, StopInv, InMainRun
    <2>5. CASE TransferEntry
      <3>1. ExternalListSound'
        BY <2>5, SizeAssumption, RemoveFirstSound
           DEF TransferEntry, ExternalListSound, ListLocked, LockInv, TypeOK
      <3> QED
        BY <2>5, <3>1 DEF TransferEntry, threadVars, mgmtVars, HandleInv,
                          LockInv, ListLocked, WakeInv, StopInv
    <2>6. CASE TransferLast
      <3>1. /\ ExternalListSound'
            /\ mExternalEventList'.start = mExternalEventList'.end
        <4>1. CASE mExternalEventList.list[mExternalEventList.start] # NoEvent
          BY <2>6, <4>1, SizeAssumption, ClearFirstSound
             DEF TransferLast, LastEntryTaken, ExternalListSound, TypeOK
        <4>2. CASE mExternalEventList.list[mExternalEventList.start] = NoEvent
          BY <2>6, <4>2
             DEF TransferLast, LastEntryTaken, ExternalListSound, Unlocked
        <4> QED
          BY <4>1, <4>2
      <3> QED
        BY <2>6, <3>1 DEF TransferLast, mgmtVars, HandleInv, LockInv,
                          ListLocked, WakeInv, StopInv, InMainRun
    <2>7. ASSUME NEW e \in Event, AddEventEntry(e)
          PROVE  HandleInv' /\ LockInv' /\ ExternalListSound'
                 /\ WakeInv' /\ StopInv'
      BY <2>7 DEF AddEventEntry, threadVars, mgmtVars, HandleInv, LockInv,
                  ListLocked, ExternalListSound, WakeInv, StopInv
    <2>8. CASE AdvanceStart
      BY <2>8 DEF AdvanceStart, mgmtVars, HandleInv, LockInv, ListLocked,
                  ExternalListSound, WakeInv, StopInv, InMainRun
    <2> QED
      BY <1>2, <2>1, <2>2, <2>3, <2>4, <2>5, <2>6, <2>7, <2>8 DEF EcetThread
  <1>3. ASSUME Management
        PROVE  HandleInv' /\ LockInv' /\ ExternalListSound'
               /\ WakeInv' /\ StopInv'
    <2>1. CASE StartResource
      BY <2>1 DEF StartResource, CreateThread, ringVars, HandleInv, LockInv,
                  ListLocked, ExternalListSound, WakeInv, StopInv, InMainRun
    <2>2. CASE StopResource \/ KillResource \/ ResetResource \/ ClearZero
               \/ ClearReset \/ SetNotAlive \/ ResumeAfterStop
      BY <2>2 DEF StopResource, KillResource, ResetResource, ClearZero,
                  ClearReset, SetNotAlive, ResumeAfterStop, ResumeSelfSuspend,
                  ringVars, threadVars, HandleInv, LockInv, ListLocked,
                  ExternalListSound, WakeInv, StopInv
    <2>3. CASE ClearExternal
      <3>1. mExternalEventList' = EmptyRing(ExtSize)
        BY <2>3 DEF ClearExternal
      <3>2. mExternalEventList'.start = mExternalEventList'.end
        BY <3>1 DEF EmptyRing
      <3>3. ExternalListSound'
        BY <3>1, SizeAssumption, EmptyRingSound DEF ExternalListSound
      <3> QED
        BY <2>3, <3>2, <3>3 DEF ClearExternal, threadVars, HandleInv, LockInv,
                                ListLocked, WakeInv, StopInv
    <2> QED
      BY <1>3, <2>1, <2>2, <2>3 DEF Management
  <1>4. CASE UNCHANGED vars
    BY <1>4 DEF vars, HandleInv, LockInv, ListLocked, ExternalListSound,
                WakeInv, StopInv
  <1> QED
    BY <1>1, <1>2, <1>3, <1>4 DEF Next

THEOREM SyncInvariant == Spec => []SyncInv
  BY SyncInit, SyncStep, TypeCorrect, PTL DEF Spec

(* The external event list never locks and never makes the transfer spin,  *)
(* whatever the sources, the ecet and the management thread do.            *)
THEOREM ExternalListIsSound == Spec => []ExternalListSound
  <1>1. SyncInv => ExternalListSound
    BY DEF SyncInv
  <1> QED
    BY <1>1, SyncInvariant, PTL

(* An ecet about to sleep on a non-empty external list has been signalled. *)
THEOREM WakeupIsNotLost == Spec => []NoLostWakeup
  <1>1. SyncInv => NoLostWakeup
    BY DEF SyncInv, WakeInv, NoLostWakeup
  <1> QED
    BY <1>1, SyncInvariant, PTL

(* No ecet sleeps through a completed stop or kill.                        *)
THEOREM StopIsNotSleptThrough == Spec => []StopNotSleptThrough
  <1>1. SyncInv => StopNotSleptThrough
    BY DEF SyncInv, StopInv, StopNotSleptThrough
  <1> QED
    BY <1>1, SyncInvariant, PTL

-----------------------------------------------------------------------------
(* ChainInv is inductive for an application whose load stays below the     *)
(* size of the internal list, in a resource that is not killed.            *)
LEMMA ChainInit ==
  ASSUME Init PROVE ChainInv
  BY SizeAssumption, LoadAssumption, EmptyRingSound
     DEF Init, ChainInv, InternalListContiguous, Outstanding

LEMMA ChainStep ==
  ASSUME "Kill" \notin Commands, Load < IntSize,
         SyncInv, ChainInv, [Next]_vars
  PROVE  ChainInv'
  <1> DEFINE I == Count(mEventList, IntSize)
             X == Count(mExternalEventList, ExtSize)
  <1>0. /\ IntSize \in Nat /\ IntSize >= 2 /\ ExtSize \in Nat /\ ExtSize >= 2
        /\ Load \in Nat
        /\ mEventList \in Ring(IntSize) /\ Contiguous(mEventList, IntSize)
        /\ mExternalEventList \in Ring(ExtSize)
        /\ Contiguous(mExternalEventList, ExtSize)
        /\ I \in 0 .. IntSize /\ X \in 0 .. ExtSize /\ I + X <= Load
        /\ Accepts(mEventList)
    BY SizeAssumption, LoadAssumption, CountBounds
       DEF SyncInv, TypeOK, ExternalListSound, ChainInv,
           InternalListContiguous, Outstanding
  <1>1. ASSUME NEW e \in Event, StartEventChain(e) PROVE ChainInv'
    <2>1. Count(mExternalEventList', ExtSize) = X + 1
      BY <1>0, <1>1, AddCounts DEF StartEventChain
    <2>2. I + X < Load
      BY <1>1 DEF StartEventChain, WithinLoad, Outstanding
    <2>3. Outstanding' <= Load
      BY <1>0, <1>1, <2>1, <2>2 DEF StartEventChain, Outstanding
    <2> QED
      BY <1>1, <2>3 DEF StartEventChain, threadVars, mgmtVars, ChainInv,
                        InternalListContiguous
  <1>2. ASSUME EcetThread PROVE ChainInv'
    <2>1. CASE RunThread \/ RunLoop \/ EndThread \/ ExternalEventOccured
               \/ TransferLock \/ SelectEvent \/ SelfSuspend
               \/ ExecutionDone
      BY <2>1 DEF RunThread, RunLoop, EndThread, ExternalEventOccured,
                  TransferLock, SelectEvent, SelfSuspend, ExecutionDone,
                  ringVars, mgmtVars, ChainInv, InternalListContiguous,
                  Outstanding
    <2>2. CASE Deliver
      <3>1. mEventList.list[mEventList.start] # NoEvent
        BY <1>0, <2>2, RemoveFirstSound, NoEventAssumption
           DEF Deliver, ChainInv
      <3> QED
        BY <2>2, <3>1 DEF Deliver, ringVars, mgmtVars, ChainInv,
                          InternalListContiguous, Outstanding
    <2>3. CASE TransferEntry
      <3> DEFINE e == mExternalEventList.list[mExternalEventList.start]
      <3>1. /\ e \in Event
            /\ Count(mExternalEventList', ExtSize) = X - 1
        BY <1>0, <2>3, RemoveFirstSound DEF TransferEntry
      <3>2. mEventList' = Add(mEventList, IntSize, e)
        BY <2>3 DEF TransferEntry
      <3>3. /\ Contiguous(mEventList', IntSize)
            /\ Count(mEventList', IntSize) = I + 1
            /\ Accepts(mEventList') \/ Count(mEventList', IntSize) = IntSize
        BY <1>0, <3>1, <3>2, AddSound, AddCounts
      <3>4. Outstanding' <= Load /\ Accepts(mEventList')
        <4>1. Outstanding' = I + 1 + (X - 1)
          BY <3>1, <3>3 DEF Outstanding
        <4>2. X >= 1
          BY <1>0, <2>3 DEF TransferEntry, Count, Distance, Ring
        <4> QED
          BY <1>0, <3>3, <4>1, <4>2
      <3> QED
        BY <2>3, <3>3, <3>4 DEF TransferEntry, threadVars, mgmtVars, ChainInv,
                                InternalListContiguous
    <2>4. CASE TransferLast
      <3> DEFINE e == mExternalEventList.list[mExternalEventList.start]
      <3>1. CASE e = NoEvent
        BY <2>4, <3>1 DEF TransferLast, LastEntryTaken, mgmtVars, ChainInv,
                          InternalListContiguous, Outstanding
      <3>2. CASE e # NoEvent
        <4>1. e \in Event
          BY <1>0, <3>2, OperationsTyped
        <4>2. X = 1 /\ Count(mExternalEventList', ExtSize) = 0
          BY <1>0, <2>4, <3>2, ClearFirstSound
             DEF TransferLast, LastEntryTaken, Accepts
        <4>3. mEventList' = Add(mEventList, IntSize, e)
          BY <2>4, <3>2 DEF TransferLast, LastEntryTaken
        <4>4. /\ Contiguous(mEventList', IntSize)
              /\ Count(mEventList', IntSize) = I + 1
              /\ Accepts(mEventList') \/ Count(mEventList', IntSize) = IntSize
          BY <1>0, <4>1, <4>3, AddSound, AddCounts
        <4>5. Outstanding' <= Load /\ Accepts(mEventList')
          BY <1>0, <4>2, <4>4 DEF Outstanding
        <4> QED
          BY <2>4, <4>4, <4>5 DEF TransferLast, mgmtVars, ChainInv,
                                  InternalListContiguous
      <3> QED
        BY <3>1, <3>2
    <2>5. ASSUME NEW e \in Event, AddEventEntry(e) PROVE ChainInv'
      <3>1. mEventList' = Add(mEventList, IntSize, e) /\ I + X < Load
        BY <2>5 DEF AddEventEntry, WithinLoad, Outstanding
      <3>2. /\ Contiguous(mEventList', IntSize)
            /\ Count(mEventList', IntSize) = I + 1
            /\ Accepts(mEventList') \/ Count(mEventList', IntSize) = IntSize
            /\ mEventList.start # mEventList.end =>
                 mEventList'.start # mEventList'.end
        BY <1>0, <3>1, AddSound, AddCounts
      <3>3. Outstanding' <= Load /\ Accepts(mEventList')
        BY <1>0, <2>5, <3>1, <3>2 DEF AddEventEntry, Outstanding
      <3> QED
        BY <2>5, <3>2, <3>3 DEF AddEventEntry, threadVars, mgmtVars, ChainInv,
                                InternalListContiguous
    <2>6. CASE AdvanceStart
      <3>1. /\ Contiguous(mEventList', IntSize)
            /\ Accepts(mEventList')
            /\ Count(mEventList', IntSize) = I - 1
        BY <1>0, <2>6, RemoveFirstSound DEF AdvanceStart, ChainInv
      <3>2. Outstanding' <= Load
        BY <1>0, <2>6, <3>1 DEF AdvanceStart, Outstanding
      <3> QED
        BY <2>6, <3>1, <3>2 DEF AdvanceStart, mgmtVars, ChainInv,
                                InternalListContiguous
    <2> QED
      BY <1>2, <2>1, <2>2, <2>3, <2>4, <2>5, <2>6 DEF EcetThread
  <1>3. ASSUME Management PROVE ChainInv'
    BY <1>3 DEF Management, StartResource, CreateThread, StopResource,
                KillResource, ResetResource, ClearZero, ClearReset,
                ClearExternal, SetNotAlive, ResumeAfterStop, ringVars,
                threadVars, ChainInv, InternalListContiguous, Outstanding
  <1>4. CASE UNCHANGED vars
    BY <1>4 DEF vars, ChainInv, InternalListContiguous, Outstanding
  <1> QED
    BY <1>1, <1>2, <1>3, <1>4 DEF Next

(* With a load below the list's size and no Kill, what mainRun takes for   *)
(* an empty internal list is empty, so it never suspends on top of an      *)
(* undelivered event and never refuses one for good.                       *)
THEOREM EmptyListIsEmpty ==
  ASSUME "Kill" \notin Commands, Load < IntSize
  PROVE  Spec => []EmptyMeansEmpty
  <1>1. Init => ChainInv
    BY ChainInit
  <1>2. SyncInv /\ ChainInv /\ [Next]_vars => ChainInv'
    BY ChainStep
  <1>3. ChainInv => EmptyMeansEmpty
    BY DEF ChainInv, EmptyMeansEmpty
  <1> QED
    BY <1>1, <1>2, <1>3, SyncInvariant, PTL DEF Spec

(* DeliverInv asks nothing of the load: a full list drops what is added,   *)
(* but every slot from Start to End stays filled until Start passes it.    *)
LEMMA DeliverStep ==
  ASSUME "Kill" \notin Commands, SyncInv, DeliverInv, [Next]_vars
  PROVE  DeliverInv'
  <1>0. /\ IntSize \in Nat /\ IntSize >= 2 /\ ExtSize \in Nat /\ ExtSize >= 2
        /\ mEventList \in Ring(IntSize) /\ Contiguous(mEventList, IntSize)
        /\ mExternalEventList \in Ring(ExtSize)
        /\ Contiguous(mExternalEventList, ExtSize)
    BY SizeAssumption
       DEF SyncInv, TypeOK, ExternalListSound, DeliverInv,
           InternalListContiguous
  <1>1. ASSUME NEW e \in Event, StartEventChain(e) PROVE DeliverInv'
    BY <1>1 DEF StartEventChain, threadVars, mgmtVars, DeliverInv,
                InternalListContiguous
  <1>2. ASSUME EcetThread PROVE DeliverInv'
    <2>1. CASE RunThread \/ RunLoop \/ EndThread \/ ExternalEventOccured
               \/ TransferLock \/ SelectEvent \/ SelfSuspend
               \/ ExecutionDone
      BY <2>1 DEF RunThread, RunLoop, EndThread, ExternalEventOccured,
                  TransferLock, SelectEvent, SelfSuspend, ExecutionDone,
                  ringVars, mgmtVars, DeliverInv, InternalListContiguous
    <2>2. CASE Deliver
      <3>1. mEventList.list[mEventList.start] # NoEvent
        BY <1>0, <2>2, RemoveFirstSound, NoEventAssumption
           DEF Deliver, DeliverInv
      <3> QED
        BY <2>2, <3>1 DEF Deliver, ringVars, mgmtVars, DeliverInv,
                          InternalListContiguous
    <2>3. CASE TransferEntry
      <3> DEFINE e == mExternalEventList.list[mExternalEventList.start]
      <3>1. e \in Event /\ mEventList' = Add(mEventList, IntSize, e)
        BY <1>0, <2>3, RemoveFirstSound DEF TransferEntry
      <3>2. Contiguous(mEventList', IntSize)
        BY <1>0, <3>1, AddSound
      <3> QED
        BY <2>3, <3>2 DEF TransferEntry, threadVars, mgmtVars, DeliverInv,
                          InternalListContiguous
    <2>4. CASE TransferLast
      <3> DEFINE e == mExternalEventList.list[mExternalEventList.start]
      <3>1. CASE e = NoEvent
        BY <2>4, <3>1 DEF TransferLast, LastEntryTaken, mgmtVars, DeliverInv,
                          InternalListContiguous
      <3>2. CASE e # NoEvent
        <4>1. e \in Event
          BY <1>0, <3>2, OperationsTyped
        <4>2. mEventList' = Add(mEventList, IntSize, e)
          BY <2>4, <3>2 DEF TransferLast, LastEntryTaken
        <4>3. Contiguous(mEventList', IntSize)
          BY <1>0, <4>1, <4>2, AddSound
        <4> QED
          BY <2>4, <4>3 DEF TransferLast, mgmtVars, DeliverInv,
                            InternalListContiguous
      <3> QED
        BY <3>1, <3>2
    <2>5. ASSUME NEW e \in Event, AddEventEntry(e) PROVE DeliverInv'
      <3>1. mEventList' = Add(mEventList, IntSize, e)
        BY <2>5 DEF AddEventEntry
      <3>2. /\ Contiguous(mEventList', IntSize)
            /\ mEventList.start # mEventList.end =>
                 mEventList'.start # mEventList'.end
        BY <1>0, <3>1, AddSound
      <3> QED
        BY <2>5, <3>2 DEF AddEventEntry, threadVars, mgmtVars, DeliverInv,
                          InternalListContiguous
    <2>6. CASE AdvanceStart
      <3>1. Contiguous(mEventList', IntSize)
        BY <1>0, <2>6, RemoveFirstSound DEF AdvanceStart, DeliverInv
      <3> QED
        BY <2>6, <3>1 DEF AdvanceStart, mgmtVars, DeliverInv,
                          InternalListContiguous
    <2> QED
      BY <1>2, <2>1, <2>2, <2>3, <2>4, <2>5, <2>6 DEF EcetThread
  <1>3. ASSUME Management PROVE DeliverInv'
    BY <1>3 DEF Management, StartResource, CreateThread, StopResource,
                KillResource, ResetResource, ClearZero, ClearReset,
                ClearExternal, SetNotAlive, ResumeAfterStop, ringVars,
                threadVars, DeliverInv, InternalListContiguous
  <1>4. CASE UNCHANGED vars
    BY <1>4 DEF vars, DeliverInv, InternalListContiguous
  <1> QED
    BY <1>1, <1>2, <1>3, <1>4 DEF Next

(* In a resource that is not killed the entry mainRun has checked is still *)
(* there when it is dereferenced, and the list has no holes, whatever the  *)
(* load: also with a list that fills and drops events.                     *)
THEOREM DeliveryIsSafe ==
  ASSUME "Kill" \notin Commands
  PROVE  Spec => [](NoNullDelivery /\ InternalListContiguous)
  <1>1. Init => DeliverInv
    BY SizeAssumption, EmptyRingSound
       DEF Init, DeliverInv, InternalListContiguous
  <1>2. SyncInv /\ DeliverInv /\ [Next]_vars => DeliverInv'
    BY DeliverStep
  <1>3. DeliverInv => NoNullDelivery /\ InternalListContiguous
    BY DEF DeliverInv, NoNullDelivery
  <1> QED
    BY <1>1, <1>2, <1>3, SyncInvariant, PTL DEF Spec

-----------------------------------------------------------------------------

(* The slots of a ring in the order they were filled: those in use, then   *)
(* End's.                                                                  *)
LEMMA SlotOrder ==
  ASSUME NEW size \in Nat, size >= 2, NEW r \in Ring(size), NEW k \in 1 .. size
  PROVE  /\ Slot(r, size, k) \in 0 .. size - 1
         /\ Distance(r, size) \in 0 .. size - 1
         /\ k <= Distance(r, size) =>
              InUse(r, Slot(r, size, k)) /\ Slot(r, size, k) # r.end
         /\ k = Distance(r, size) + 1 => Slot(r, size, k) = r.end
<1>1. r.start \in 0 .. size - 1 /\ r.end \in 0 .. size - 1
  BY DEF Ring
<1>2. CASE r.end <= r.start
  BY <1>1, <1>2 DEF Slot, Distance, InUse
<1>3. CASE ~(r.end <= r.start)
  BY <1>1, <1>3 DEF Slot, Distance, InUse
<1> QED  BY <1>2, <1>3

(* A contiguous ring stands for a sequence of events ...                   *)
LEMMA ContentsTyped ==
  ASSUME NEW size \in Nat, size >= 2, NEW r \in Ring(size), Contiguous(r, size)
  PROVE  /\ Contents(r, size) \in Seq(Event)
         /\ Len(Contents(r, size)) = Count(r, size)
         /\ \A k \in 1 .. Count(r, size) :
              Contents(r, size)[k] = r.list[Slot(r, size, k)]
<1>1. Count(r, size) \in 0 .. size
  BY CountBounds
<1>2. ASSUME NEW k \in 1 .. Count(r, size)
      PROVE  r.list[Slot(r, size, k)] \in Event
  <2>1. /\ r.start \in 0 .. size - 1 /\ r.end \in 0 .. size - 1
        /\ r.list \in [0 .. size - 1 -> Event \cup {NoEvent}]
    BY DEF Ring
  <2>2. CASE k <= Distance(r, size)
    BY <1>1, <2>2, SlotOrder DEF Contiguous
  <2>3. CASE ~(k <= Distance(r, size))
    <3>1. k = Distance(r, size) + 1 /\ ~Accepts(r)
      BY <1>1, <2>3, SlotOrder DEF Count
    <3> QED  BY <1>1, <2>1, <3>1, SlotOrder DEF Accepts
  <2> QED  BY <2>2, <2>3
<1>3. /\ Contents(r, size) = [k \in 1 .. Count(r, size) |-> r.list[Slot(r, size, k)]]
      /\ Contents(r, size) \in [1 .. Count(r, size) -> Event]
  BY <1>2 DEF Contents
<1> QED  BY <1>1, <1>3, IsASeq, LenProperties

(* ... to which Add appends ...                                            *)
LEMMA ContentsAdded ==
  ASSUME NEW size \in Nat, size >= 2, NEW r \in Ring(size), Contiguous(r, size),
         NEW e \in Event, Accepts(r)
  PROVE  Contents(Add(r, size, e), size) = Append(Contents(r, size), e)
<1> DEFINE s == Add(r, size, e)
           n == Count(r, size)
<1>1. /\ s \in Ring(size) /\ Contiguous(s, size) /\ Count(s, size) = n + 1
      /\ n \in 0 .. size
  BY AddSound, AddCounts, CountBounds
<1>2. /\ r.start \in 0 .. size - 1 /\ r.end \in 0 .. size - 1
      /\ r.list \in [0 .. size - 1 -> Event \cup {NoEvent}]
      /\ s.list = [r.list EXCEPT ![r.end] = e] /\ s.start = r.start
  BY DEF Ring, Add
<1>3. \A k \in 1 .. (n + 1) : Slot(s, size, k) = Slot(r, size, k)
  BY <1>2 DEF Slot
<1>4. Slot(r, size, n + 1) = r.end
  BY <1>2 DEF Slot, Count, Distance
<1>5. \A k \in 1 .. n : Slot(r, size, k) \in 0 .. size - 1 /\ Slot(r, size, k) # r.end
  <2> SUFFICES ASSUME NEW k \in 1 .. n
               PROVE  Slot(r, size, k) \in 0 .. size - 1 /\ Slot(r, size, k) # r.end
    OBVIOUS
  <2>1. n = Distance(r, size)
    <3>1. Distance(r, size) \in 0 .. size - 1
      BY SlotOrder
    <3> QED  BY <3>1 DEF Count
  <2> HIDE DEF n
  <2>2. k \in 1 .. size /\ k <= Distance(r, size)
    BY <1>1, <2>1
  <2> QED  BY <2>2, SlotOrder
<1> HIDE DEF s, n
<1>6. \A k \in 1 .. n : Contents(s, size)[k] = Contents(r, size)[k]
  BY <1>1, <1>2, <1>3, <1>5, ContentsTyped DEF n
<1>7. Contents(s, size)[n + 1] = e
  <2>1. Contents(s, size)[n + 1] = s.list[Slot(s, size, n + 1)]
    BY <1>1, ContentsTyped
  <2>2. Slot(s, size, n + 1) = r.end
    BY <1>1, <1>3, <1>4
  <2> QED  BY <1>2, <2>1, <2>2
<1>8. /\ Contents(s, size) \in Seq(Event) /\ Len(Contents(s, size)) = n + 1
      /\ Contents(r, size) \in Seq(Event) /\ Len(Contents(r, size)) = n
  BY <1>1, ContentsTyped DEF n
<1>9. /\ Append(Contents(r, size), e) \in Seq(Event)
      /\ Len(Append(Contents(r, size), e)) = n + 1
      /\ \A k \in 1 .. n : Append(Contents(r, size), e)[k] = Contents(r, size)[k]
      /\ Append(Contents(r, size), e)[n + 1] = e
  BY <1>8, AppendProperties
<1>10. \A k \in 1 .. Len(Contents(s, size)) :
         Contents(s, size)[k] = Append(Contents(r, size), e)[k]
  BY <1>1, <1>6, <1>7, <1>8, <1>9
<1> QED  BY <1>8, <1>9, <1>10, SeqEqual DEF s

(* ... and whose head RemoveFirst, and ClearFirst of a full ring's last    *)
(* entry, takes.                                                           *)
LEMMA ContentsRemoved ==
  ASSUME NEW size \in Nat, size >= 2, NEW r \in Ring(size), Contiguous(r, size),
         r.start # r.end
  PROVE  /\ Contents(r, size) # <<>>
         /\ Head(Contents(r, size)) = r.list[r.start]
         /\ Contents(RemoveFirst(r, size), size) = Tail(Contents(r, size))
<1> DEFINE s == RemoveFirst(r, size)
           n == Count(r, size)
<1>1. /\ s \in Ring(size) /\ Contiguous(s, size) /\ Count(s, size) = n - 1
      /\ n \in 0 .. size
  BY RemoveFirstSound, CountBounds
<1>2. /\ r.start \in 0 .. size - 1 /\ r.end \in 0 .. size - 1 /\ n >= 1
      /\ r.list \in [0 .. size - 1 -> Event \cup {NoEvent}]
      /\ s.list = [r.list EXCEPT ![r.start] = NoEvent]
      /\ s.start = NextSlot(r.start, size)
  BY DEF Ring, RemoveFirst, Count, Distance
<1>3. Slot(r, size, 1) = r.start
  BY <1>2 DEF Slot
<1>4. \A k \in 1 .. (n - 1) : /\ Slot(s, size, k) = Slot(r, size, k + 1)
                              /\ Slot(s, size, k) \in 0 .. size - 1
                              /\ Slot(s, size, k) # r.start
  <2> SUFFICES ASSUME NEW k \in 1 .. (n - 1)
               PROVE  /\ Slot(s, size, k) = Slot(r, size, k + 1)
                      /\ Slot(s, size, k) \in 0 .. size - 1
                      /\ Slot(s, size, k) # r.start
    OBVIOUS
  <2>1. k \in 1 .. (size - 1)
    BY <1>1
  <2> HIDE DEF s, n
  <2>2. CASE r.start = 0
    <3>1. s.start = size - 1 /\ k + 1 > r.start + 1
      BY <1>2, <2>1, <2>2 DEF NextSlot
    <3>2. Slot(s, size, k) = size - k /\ Slot(r, size, k + 1) = size - k
      BY <2>1, <2>2, <3>1 DEF Slot
    <3> QED  BY <2>1, <2>2, <3>2
  <2>3. CASE r.start # 0
    <3>1. s.start = r.start - 1
      BY <1>2, <2>3 DEF NextSlot
    <3>2. CASE k <= r.start
      <4>1. Slot(s, size, k) = r.start - k /\ Slot(r, size, k + 1) = r.start - k
        BY <1>2, <2>1, <3>1, <3>2 DEF Slot
      <4> QED  BY <1>2, <2>1, <3>2, <4>1
    <3>3. CASE ~(k <= r.start)
      <4>1. /\ Slot(s, size, k) = r.start - k + size
            /\ Slot(r, size, k + 1) = r.start - k + size
        <5>1. r.start \in Int /\ k \in Int /\ size \in Int
          BY <1>2, <2>1
        <5>2. ~(k <= s.start + 1) /\ s.start + 1 - k + size = r.start - k + size
          BY <3>1, <3>3, <5>1
        <5>3. /\ ~(k + 1 <= r.start + 1)
              /\ r.start + 1 - (k + 1) + size = r.start - k + size
          BY <3>3, <5>1
        <5>4. Slot(s, size, k) = r.start - k + size
          BY <5>2 DEF Slot
        <5>5. Slot(r, size, k + 1) = r.start - k + size
          BY <5>3 DEF Slot
        <5> QED  BY <5>4, <5>5
      <4> QED  BY <1>2, <2>1, <3>3, <4>1
    <3> QED  BY <3>2, <3>3
  <2> QED  BY <2>2, <2>3
<1> HIDE DEF s, n
<1>5. /\ Contents(s, size) \in Seq(Event) /\ Len(Contents(s, size)) = n - 1
      /\ Contents(r, size) \in Seq(Event) /\ Len(Contents(r, size)) = n
      /\ Contents(r, size)[1] = r.list[r.start]
  BY <1>1, <1>2, <1>3, ContentsTyped DEF n
<1>6. \A k \in 1 .. (n - 1) : Contents(s, size)[k] = Contents(r, size)[k + 1]
  <2> SUFFICES ASSUME NEW k \in 1 .. (n - 1)
               PROVE  Contents(s, size)[k] = Contents(r, size)[k + 1]
    OBVIOUS
  <2>1. Contents(s, size)[k] = s.list[Slot(s, size, k)]
    BY <1>1, ContentsTyped
  <2>2. k + 1 \in 1 .. Count(r, size)
    BY <1>1 DEF n
  <2>3. Contents(r, size)[k + 1] = r.list[Slot(r, size, k + 1)]
    BY <2>2, ContentsTyped
  <2>4. s.list[Slot(s, size, k)] = r.list[Slot(s, size, k)]
    BY <1>2, <1>4
  <2> QED  BY <1>4, <2>1, <2>3, <2>4
<1>7. Contents(r, size) # <<>>
  BY <1>2, <1>5
<1>8. /\ Tail(Contents(r, size)) \in Seq(Event)
      /\ Len(Tail(Contents(r, size))) = n - 1
      /\ \A k \in 1 .. (n - 1) : Tail(Contents(r, size))[k] = Contents(r, size)[k + 1]
      /\ Head(Contents(r, size)) = Contents(r, size)[1]
  BY <1>5, <1>7, HeadTailProperties
<1>9. \A k \in 1 .. Len(Contents(s, size)) :
        Contents(s, size)[k] = Tail(Contents(r, size))[k]
  BY <1>5, <1>6, <1>8
<1> QED  BY <1>5, <1>7, <1>8, <1>9, SeqEqual DEF s

LEMMA ContentsCleared ==
  ASSUME NEW size \in Nat, size >= 2, NEW r \in Ring(size), Contiguous(r, size),
         r.start = r.end, r.list[r.start] # NoEvent
  PROVE  /\ Contents(r, size) # <<>>
         /\ Head(Contents(r, size)) = r.list[r.start]
         /\ Contents(ClearFirst(r), size) = Tail(Contents(r, size))
<1>1. /\ ClearFirst(r) \in Ring(size) /\ Contiguous(ClearFirst(r), size)
      /\ Count(r, size) = 1 /\ Count(ClearFirst(r), size) = 0
      /\ r.start \in 0 .. size - 1
  BY ClearFirstSound DEF Count, Distance, Accepts, Ring
<1>2. /\ Contents(ClearFirst(r), size) \in Seq(Event)
      /\ Len(Contents(ClearFirst(r), size)) = 0
      /\ Contents(r, size) \in Seq(Event) /\ Len(Contents(r, size)) = 1
      /\ Contents(r, size)[1] = r.list[Slot(r, size, 1)]
  <2>1. 1 \in 1 .. Count(r, size)
    BY <1>1
  <2> QED  BY <1>1, <2>1, ContentsTyped
<1>3. Slot(r, size, 1) = r.start
  BY <1>1 DEF Slot
<1>4. Contents(ClearFirst(r), size) = <<>> /\ Contents(r, size) # <<>>
  BY <1>2
<1>5. Tail(Contents(r, size)) = <<>>
  <2>1. Tail(Contents(r, size)) \in Seq(Event) /\ Len(Tail(Contents(r, size))) = 0
    BY <1>2, <1>4, HeadTailProperties
  <2> QED  BY <2>1, EmptySeq
<1>6. Head(Contents(r, size)) = Contents(r, size)[1]
  BY <1>2, <1>4
<1> QED  BY <1>2, <1>3, <1>4, <1>5, <1>6

-----------------------------------------------------------------------------
(* The step of each action, over the invariants of EventChainProofs.       *)
Implementing == SyncInv /\ ChainInv

LEMMA RingFacts ==
  ASSUME Implementing
  PROVE  /\ IntSize \in Nat /\ IntSize >= 2 /\ ExtSize \in Nat /\ ExtSize >= 2
         /\ Load \in Nat
         /\ mEventList \in Ring(IntSize) /\ Contiguous(mEventList, IntSize)
         /\ mExternalEventList \in Ring(ExtSize)
         /\ Contiguous(mExternalEventList, ExtSize)
         /\ Accepts(mEventList)
         /\ Len(Contents(mEventList, IntSize)) = Count(mEventList, IntSize)
         /\ Len(Contents(mExternalEventList, ExtSize)) = Count(mExternalEventList, ExtSize)
         /\ Count(mEventList, IntSize) \in Nat
         /\ Count(mExternalEventList, ExtSize) \in Nat
         /\ Count(mEventList, IntSize) + Count(mExternalEventList, ExtSize) <= Load
<1>1. /\ IntSize \in Nat /\ IntSize >= 2 /\ ExtSize \in Nat /\ ExtSize >= 2
      /\ Load \in Nat
      /\ mEventList \in Ring(IntSize) /\ Contiguous(mEventList, IntSize)
      /\ mExternalEventList \in Ring(ExtSize)
      /\ Contiguous(mExternalEventList, ExtSize)
      /\ Accepts(mEventList) /\ Outstanding <= Load
  BY SizeAssumption, LoadAssumption
     DEF Implementing, SyncInv, TypeOK, ExternalListSound, ChainInv,
         InternalListContiguous
<1>2. /\ Len(Contents(mEventList, IntSize)) = Count(mEventList, IntSize)
      /\ Len(Contents(mExternalEventList, ExtSize)) = Count(mExternalEventList, ExtSize)
  BY <1>1, ContentsTyped
<1>3. /\ Count(mEventList, IntSize) \in 0 .. IntSize
      /\ Count(mExternalEventList, ExtSize) \in 0 .. ExtSize
  BY <1>1, CountBounds
<1> QED  BY <1>1, <1>2, <1>3 DEF Outstanding

(* What a step of the mapped queue means for the two rings.                *)
QueueUnchanged ==
  /\ UNCHANGED <<mEventList, mExternalEventList>>
  /\ pc' \in {"execute", "advance"} <=> pc \in {"execute", "advance"}

LEMMA Stutters ==
  ASSUME QueueUnchanged
  PROVE  UNCHANGED Queue!queueVars
BY DEF QueueUnchanged, Queue!queueVars

LEMMA AcceptStep ==
  ASSUME Implementing, NEW e \in Event, StartEventChain(e)
  PROVE  Queue!Accept(e)
<1>1. /\ mExternalEventList' = Add(mExternalEventList, ExtSize, e)
      /\ mEventList' = mEventList /\ pc' = pc /\ Accepts(mExternalEventList)
  BY DEF StartEventChain, threadVars
<1>2. Contents(mExternalEventList', ExtSize) = Append(Contents(mExternalEventList, ExtSize), e)
  BY <1>1, RingFacts, ContentsAdded
<1>3. Len(Contents(mExternalEventList, ExtSize)) < ExtSize
  BY <1>1, RingFacts DEF Count, Distance, Ring
<1> QED  BY <1>1, <1>2, <1>3 DEF Queue!Accept

LEMMA TransferStep ==
  ASSUME Implementing, Load < IntSize, TransferEntry \/ TransferLast
  PROVE  Queue!Transfer \/ QueueUnchanged
<1> DEFINE e == mExternalEventList.list[mExternalEventList.start]
<1>1. CASE e = NoEvent
  BY <1>1 DEF TransferEntry, TransferLast, LastEntryTaken, QueueUnchanged
<1>2. CASE e # NoEvent
  <2>1. /\ Contents(mExternalEventList, ExtSize) # <<>>
        /\ Head(Contents(mExternalEventList, ExtSize)) = e
        /\ Contents(mExternalEventList', ExtSize) = Tail(Contents(mExternalEventList, ExtSize))
    <3>1. CASE TransferEntry
      BY <3>1, RingFacts, ContentsRemoved DEF TransferEntry
    <3>2. CASE TransferLast
      BY <1>2, <3>2, RingFacts, ContentsCleared DEF TransferLast, LastEntryTaken
    <3> QED  BY <3>1, <3>2
  <2>2. mEventList' = Add(mEventList, IntSize, e)
    BY <1>2 DEF TransferEntry, TransferLast, LastEntryTaken
  <2>3. e \in Event
    BY <1>2, RingFacts DEF Ring
  <2>4. Contents(mEventList', IntSize) = Append(Contents(mEventList, IntSize), e)
    BY <2>2, <2>3, RingFacts, ContentsAdded
  <2>5. Len(Contents(mEventList, IntSize)) < IntSize
    BY RingFacts
  <2>6. pc \notin {"execute", "advance"} /\ pc' \notin {"execute", "advance"}
    BY DEF TransferEntry, TransferLast, threadVars
  <2> QED  BY <2>1, <2>4, <2>5, <2>6 DEF Queue!Transfer
<1> QED  BY <1>1, <1>2

LEMMA SendStep ==
  ASSUME Implementing, Load < IntSize, NEW e \in Event, AddEventEntry(e)
  PROVE  Queue!SendEvent(e)
<1>1. /\ mEventList' = Add(mEventList, IntSize, e)
      /\ mExternalEventList' = mExternalEventList /\ pc = "execute" /\ pc' = pc
  BY DEF AddEventEntry, threadVars
<1>2. Contents(mEventList', IntSize) = Append(Contents(mEventList, IntSize), e)
  BY <1>1, RingFacts, ContentsAdded
<1>3. Len(Contents(mEventList, IntSize)) < IntSize
  BY RingFacts
<1> QED  BY <1>1, <1>2, <1>3 DEF Queue!SendEvent

LEMMA BeginStep ==
  ASSUME Implementing, Deliver
  PROVE  Queue!BeginExecution
<1>1. /\ mEventList' = mEventList /\ mExternalEventList' = mExternalEventList
      /\ pc = "deliver" /\ mEventList.start # mEventList.end
  BY DEF Deliver, ringVars, Implementing, ChainInv
<1>2. /\ Contents(mEventList, IntSize) # <<>>
      /\ mEventList.list[mEventList.start] \in Event
  BY <1>1, RingFacts, ContentsRemoved, RemoveFirstSound
<1>3. pc' = "execute"
  BY <1>2, NoEventAssumption DEF Deliver
<1> QED  BY <1>1, <1>2, <1>3 DEF Queue!BeginExecution

LEMMA EndStep ==
  ASSUME Implementing, AdvanceStart
  PROVE  Queue!EndExecution
<1>1. /\ mEventList' = RemoveFirst(mEventList, IntSize)
      /\ mExternalEventList' = mExternalEventList
      /\ pc = "advance" /\ pc' = "loop" /\ mEventList.start # mEventList.end
  BY DEF AdvanceStart, Implementing, ChainInv
<1>2. Contents(mEventList', IntSize) = Tail(Contents(mEventList, IntSize))
  BY <1>1, RingFacts, ContentsRemoved
<1> QED  BY <1>1, <1>2 DEF Queue!EndExecution

(* Taking the list for empty, or its first entry for deliverable, begins   *)
(* no execution: an entry the pointers count is never null.                *)
LEMMA SelectStep ==
  ASSUME Implementing, SelectEvent
  PROVE  QueueUnchanged
<1>1. CASE mEventList.start # mEventList.end
  <2>1. mEventList.list[mEventList.start] # NoEvent
    BY <1>1, RingFacts, RemoveFirstSound, NoEventAssumption
  <2> QED  BY <1>1, <2>1 DEF SelectEvent, ringVars, QueueUnchanged
<1>2. CASE mEventList.start = mEventList.end
  BY <1>2 DEF SelectEvent, ringVars, QueueUnchanged
<1> QED  BY <1>1, <1>2

LEMMA ImplementationStep ==
  ASSUME Implementing, Load < IntSize, [Next]_vars
  PROVE  [Queue!QueueNext]_(Queue!queueVars)
<1>1. CASE \E e \in Event : StartEventChain(e)
  BY <1>1, AcceptStep DEF Queue!QueueNext
<1>2. CASE RunThread \/ RunLoop \/ EndThread \/ ExternalEventOccured
           \/ TransferLock \/ SelfSuspend \/ ExecutionDone
  <2>1. QueueUnchanged
    BY <1>2 DEF RunThread, RunLoop, EndThread, ExternalEventOccured, TransferLock,
                SelfSuspend, ExecutionDone, ringVars, QueueUnchanged
  <2> QED  BY <2>1, Stutters
<1>3. CASE TransferEntry \/ TransferLast
  BY <1>3, TransferStep, Stutters DEF Queue!QueueNext
<1>4. CASE SelectEvent
  BY <1>4, SelectStep, Stutters
<1>5. CASE Deliver
  BY <1>5, BeginStep DEF Queue!QueueNext
<1>6. CASE \E e \in Event : AddEventEntry(e)
  BY <1>6, SendStep DEF Queue!QueueNext
<1>7. CASE AdvanceStart
  BY <1>7, EndStep DEF Queue!QueueNext
<1>8. CASE Management
  <2>1. QueueUnchanged
    BY <1>8 DEF Management, StartResource, CreateThread, StopResource, KillResource,
                ResetResource, ClearZero, ClearReset, ClearExternal, SetNotAlive,
                ResumeAfterStop, ringVars, threadVars, QueueUnchanged,
                Implementing, SyncInv, HandleInv, ChainInv
  <2> QED  BY <2>1, Stutters
<1>9. CASE UNCHANGED vars
  BY <1>9, Stutters DEF vars, QueueUnchanged
<1> QED
  BY <1>1, <1>2, <1>3, <1>4, <1>5, <1>6, <1>7, <1>8, <1>9 DEF Next, EcetThread

(* Every behaviour of the event chain thread, its sources and the manager  *)
(* (startEventChain, transferExternalEvents, mainRun, addEventEntry) is a  *)
(* behaviour of EventQueue: accepted events are delivered first in first   *)
(* out, each once, with none lost.                                         *)
THEOREM ChainImplementsQueue ==
  ASSUME "Kill" \notin Commands, Load < IntSize
  PROVE  Spec => ImplementsEventQueue
<1>1. Init => ChainInv
  BY ChainInit
<1>2. SyncInv /\ ChainInv /\ [Next]_vars => ChainInv'
  BY ChainStep
<1>3. Init => Queue!QueueInit
  <2> SUFFICES ASSUME Init PROVE Queue!QueueInit
    OBVIOUS
  <2>1. /\ mEventList = EmptyRing(IntSize) /\ mExternalEventList = EmptyRing(ExtSize)
        /\ pc = "none"
    BY DEF Init
  <2>2. \A size \in Nat : size >= 2 => Contents(EmptyRing(size), size) = <<>>
    <3> SUFFICES ASSUME NEW size \in Nat, size >= 2
                 PROVE  Contents(EmptyRing(size), size) = <<>>
      OBVIOUS
    <3>1. /\ Contents(EmptyRing(size), size) \in Seq(Event)
          /\ Len(Contents(EmptyRing(size), size)) = 0
      BY EmptyRingSound, ContentsTyped
    <3> QED  BY <3>1
  <2> QED  BY <2>1, <2>2, SizeAssumption DEF Queue!QueueInit
<1>4. SyncInv /\ ChainInv /\ [Next]_vars
        => [mFBState' = "KILLED" \/ Queue!QueueNext]_(Queue!queueVars)
  BY ImplementationStep DEF Implementing
<1> QED
  BY <1>1, <1>2, <1>3, <1>4, SyncInvariant, PTL
     DEF Spec, ImplementsEventQueue
=============================================================================
