---------------------------- MODULE TimerHandler ----------------------------
(***************************************************************************)
(* The timer handler CTimerHandler (src/src/arch/timerha.cpp, timerha.h):  *)
(* the intrusive lists of timed function blocks and the tick that serves   *)
(* them.  nextTick runs in the FreeRTOS timer task                         *)
(* (arch/freeRTOS/freertostiha.cpp); registerTimedFB and unregisterTimedFB *)
(* are called from event chain execution threads and from the management   *)
(* thread.                                                                 *)
(*                                                                         *)
(* An entry (STimedFBListEntry) belongs to one function block and is named *)
(* after it.  Both lists are kept as in the code, by a head pointer and    *)
(* the one mNext field an entry has, so an entry put on two lists at once  *)
(* damages them here as it does there.                                     *)
(***************************************************************************)
EXTENDS Naturals, Sequences, FiniteSets

CONSTANTS FB,          \* timed function blocks and their list entries
          NoFB,        \* the null pointer
          Periodic,    \* the blocks whose mType is e_Periodic
          MaxTime,     \* bound on mForteTime
          MaxPending   \* room for their events in the external event list

ASSUME NoFBAssumption == NoFB \notin FB
ASSUME TimerAssumption == /\ IsFiniteSet(FB) /\ Periodic \subseteq FB
                          /\ MaxTime \in Nat /\ MaxPending \in Nat

VARIABLES
  mForteTime,     \* ticks since start
  mTimedFBList,   \* head of the list served by the tick
  mAddFBList,     \* head of the list of entries to add, under mAddListSync
  mRemoveFBList,  \* blocks to remove, under mRemoveListSync
  mTimeOut, mInterval, mNext,   \* fields of the entries
  tick,           \* where nextTick is
  pending         \* external events handed to the event chain, not executed

entryVars == <<mTimeOut, mInterval, mNext>>
timerVars == <<mForteTime, mTimedFBList, mAddFBList, mRemoveFBList,
               mTimeOut, mInterval, mNext, tick, pending>>

TimerTypeOK ==
  /\ mForteTime \in Nat
  /\ mTimedFBList \in FB \cup {NoFB}
  /\ mAddFBList \in FB \cup {NoFB}
  /\ mRemoveFBList \in Seq(FB)
  /\ mTimeOut \in [FB -> Nat]
  /\ mInterval \in [FB -> Nat]
  /\ mNext \in [FB -> FB \cup {NoFB}]
  /\ tick \in {"idle", "begin", "remove", "timed", "add"}
  /\ pending \in Seq(FB) /\ Len(pending) <= MaxPending

TimerInit ==
  /\ mForteTime = 0
  /\ mTimedFBList = NoFB
  /\ mAddFBList = NoFB
  /\ mRemoveFBList = <<>>
  /\ mTimeOut = [f \in FB |-> 0]
  /\ mInterval = [f \in FB |-> 0]
  /\ mNext = [f \in FB |-> NoFB]
  /\ tick = "idle"
  /\ pending = <<>>

-----------------------------------------------------------------------------
(* The entries met from head on along next, NoFB once the list has ended;  *)
(* a path that has not ended after Cardinality(FB) steps never does.       *)
Path(head, next) ==
  LET p[n \in 0 .. Cardinality(FB)] ==
        IF n = 0 THEN head
        ELSE IF p[n - 1] = NoFB THEN NoFB ELSE next[p[n - 1]]
  IN p

Ends(head, next) == Path(head, next)[Cardinality(FB)] = NoFB
Entries(head, next) ==
  {Path(head, next)[n] : n \in 0 .. Cardinality(FB)} \ {NoFB}

Meets(head, next, stop) == Entries(head, next) \cap stop # {}
FirstOf(head, next, stop) ==
  LET p == Path(head, next)
      n == CHOOSE i \in DOMAIN p : p[i] \in stop
                                   /\ \A j \in 0 .. i - 1 : p[j] \notin stop
  IN p[n]

-----------------------------------------------------------------------------
(* addTimedFBEntry(e) on a list given by its head: insert e before the     *)
(* first entry with a later time-out.  Without the Meets condition of      *)
(* CanAdd the code's while loop would not end.                             *)
Later(e, timeOut) == {f \in FB : timeOut[f] > timeOut[e]}
StopsAt(e, next, timeOut) ==
  {f \in FB : next[f] \in Later(e, timeOut) \cup {NoFB}}

CanAdd(e, head, next, timeOut) ==
  LET cut == [next EXCEPT ![e] = NoFB]
  IN \/ head \in Later(e, timeOut) \cup {NoFB}
     \/ Meets(head, cut, StopsAt(e, cut, timeOut))

AddTimedFBEntry(e, head, next, timeOut) ==
  LET cut == [next EXCEPT ![e] = NoFB]
      runner == FirstOf(head, cut, StopsAt(e, cut, timeOut))
  IN IF head \in Later(e, timeOut) \cup {NoFB}
       THEN [head |-> e, next |-> [cut EXCEPT ![e] = head]]
       ELSE [head |-> head,
             next |-> [[cut EXCEPT ![e] = cut[runner]] EXCEPT ![runner] = e]]

(* removeTimedFB(f): unlink the entry if the timed list has it.            *)
\* A faulty RemoveTimedFB, in no behaviour of the specification.
RemoveNothing(f) == UNCHANGED <<mTimedFBList, mNext, mTimeOut>>
RemoveTimedFB(f) ==
  LET before == {r \in FB : mNext[r] = f}
      pred   == FirstOf(mTimedFBList, mNext, before)
  IN IF mTimedFBList = f
       THEN /\ mTimedFBList' = mNext[f]
            /\ mNext' = [mNext EXCEPT ![f] = NoFB]
            /\ mTimeOut' = [mTimeOut EXCEPT ![f] = 0]
     ELSE IF Meets(mTimedFBList, mNext, before)
       THEN /\ mNext' = [[mNext EXCEPT ![pred] = mNext[f]] EXCEPT ![f] = NoFB]
            /\ mTimeOut' = [mTimeOut EXCEPT ![f] = 0]
            /\ UNCHANGED mTimedFBList
     ELSE UNCHANGED <<mTimedFBList, mNext, mTimeOut>>

(* startNewEventChain: into the external event list, or dropped when that  *)
(* is full.                                                                *)
\* A faulty StartNewEventChain, in no behaviour of the specification.
StartTwoEventChains(f) == pending' = pending \o <<f, f>>
StartNewEventChain(f) ==
  pending' = IF Len(pending) < MaxPending THEN Append(pending, f) ELSE pending

(* triggerTimedFB(f), f already unlinked from the list it came from; head  *)
(* is the timed list's head at that time.                                  *)
CanTrigger(f, head) ==
  f \in Periodic =>
    CanAdd(f, head, mNext, [mTimeOut EXCEPT ![f] = mForteTime + mInterval[f]])

TriggerTimedFB(f, head) ==
  LET again == [mTimeOut EXCEPT ![f] = mForteTime + mInterval[f]]
      added == AddTimedFBEntry(f, head, mNext, again)
  IN /\ StartNewEventChain(f)
     /\ IF f \in Periodic
          THEN /\ mTimeOut' = again
               /\ mTimedFBList' = added.head
               /\ mNext' = added.next
          ELSE /\ mTimeOut' = [mTimeOut EXCEPT ![f] = 0]
               /\ mTimedFBList' = head
               /\ mNext' = [mNext EXCEPT ![f] = NoFB]

-----------------------------------------------------------------------------
(* registerTimedFB in its two parts: the fields, then the push on the add  *)
(* list under mAddListSync.  An interval below one tick becomes one.       *)
SetTimeOut(f, dt) ==
  LET interval == IF dt = 0 THEN 1 ELSE dt
  IN /\ mInterval' = [mInterval EXCEPT ![f] = interval]
     /\ mTimeOut' = [mTimeOut EXCEPT ![f] = mForteTime + interval]

AddListLocked == tick = "add"

PushOnAddList(f) ==
  /\ ~AddListLocked
  /\ mNext' = [mNext EXCEPT ![f] = mAddFBList]
  /\ mAddFBList' = f

(* unregisterTimedFB(f).                                                   *)
RemoveListLocked == tick = "remove"

UnregisterTimedFB(f) ==
  /\ ~RemoveListLocked
  /\ mRemoveFBList' = Append(mRemoveFBList, f)

-----------------------------------------------------------------------------
(* nextTick in the timer task: advance the time, look at the remove list   *)
(* without its lock, ...                                                   *)
NextTick ==
  /\ tick = "idle"
  /\ mForteTime < MaxTime
  /\ mForteTime' = mForteTime + 1
  /\ tick' = "begin"
  /\ UNCHANGED <<mTimedFBList, mAddFBList, mRemoveFBList, entryVars, pending>>

CheckRemoveList ==
  /\ tick = "begin"
  /\ tick' = IF mRemoveFBList # <<>> THEN "remove" ELSE "timed"
  /\ UNCHANGED <<mForteTime, mTimedFBList, mAddFBList, mRemoveFBList,
                 entryVars, pending>>

(* ... processRemoveList: under the lock, the blocks of the vector in      *)
(* order ...                                                               *)
ProcessRemoveList ==
  /\ tick = "remove"
  /\ RemoveTimedFB(Head(mRemoveFBList))
  /\ mRemoveFBList' = Tail(mRemoveFBList)
  /\ tick' = IF Len(mRemoveFBList) = 1 THEN "timed" ELSE "remove"
  /\ UNCHANGED <<mForteTime, mAddFBList, mInterval, pending>>

(* ... processTimedFBList: fire the head while its time has come ...       *)
\* A faulty Due, in no behaviour of the specification.
DueEarly(f) == mTimeOut[f] <= mForteTime + 1
Due(f) == mTimeOut[f] <= mForteTime

ProcessTimedFBList ==
  /\ tick = "timed"
  /\ IF mTimedFBList # NoFB /\ Due(mTimedFBList)
       THEN /\ CanTrigger(mTimedFBList, mNext[mTimedFBList])
            /\ TriggerTimedFB(mTimedFBList, mNext[mTimedFBList])
            /\ UNCHANGED tick
       ELSE /\ tick' = "add"
            /\ UNCHANGED <<mTimedFBList, mNext, mTimeOut, pending>>
  /\ UNCHANGED <<mForteTime, mAddFBList, mRemoveFBList, mInterval>>

(* ... and processAddList: an entry whose time has passed fires at once,   *)
(* any other is put on the timed list.                                     *)
\* A faulty Passed, in no behaviour of the specification.
PassedLongAgo(f) == mTimeOut[f] + 1 < mForteTime
Passed(f) == mTimeOut[f] < mForteTime

ProcessAddList ==
  /\ tick = "add"
  /\ IF mAddFBList = NoFB
       THEN /\ tick' = "idle"
            /\ UNCHANGED <<mTimedFBList, mAddFBList, mNext, mTimeOut, pending>>
       ELSE /\ mAddFBList' = mNext[mAddFBList]
            /\ UNCHANGED tick
            /\ IF Passed(mAddFBList)
                 THEN /\ CanTrigger(mAddFBList, mTimedFBList)
                      /\ TriggerTimedFB(mAddFBList, mTimedFBList)
                 ELSE LET added == AddTimedFBEntry(mAddFBList, mTimedFBList,
                                                   mNext, mTimeOut)
                      IN /\ CanAdd(mAddFBList, mTimedFBList, mNext, mTimeOut)
                         /\ mTimedFBList' = added.head
                         /\ mNext' = added.next
                         /\ UNCHANGED <<mTimeOut, pending>>
  /\ UNCHANGED <<mForteTime, mRemoveFBList, mInterval>>

ServeTick == CheckRemoveList \/ ProcessRemoveList \/ ProcessTimedFBList
             \/ ProcessAddList

-----------------------------------------------------------------------------
TimedEntries == Entries(mTimedFBList, mNext)
AddEntries == Entries(mAddFBList, mNext)

(* No entry is on both lists and none is linked into a circle: a tick that *)
(* walks the lists comes to their end and loses no entry.  The timed list  *)
(* is in the order of the time-outs, which is what lets processTimedFBList *)
(* stop at the first entry that is not due.                                *)
ListsSound ==
  /\ Ends(mTimedFBList, mNext)
  /\ Ends(mAddFBList, mNext)
  /\ TimedEntries \cap AddEntries = {}
  /\ \A f \in TimedEntries :
       mNext[f] # NoFB => mTimeOut[f] <= mTimeOut[mNext[f]]

(* Between two ticks no entry of the timed list is overdue.                *)
NothingOverdue ==
  tick = "idle" => \A f \in TimedEntries : mTimeOut[f] >= mForteTime
=============================================================================
