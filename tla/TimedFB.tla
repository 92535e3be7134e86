------------------------------- MODULE TimedFB -------------------------------
(***************************************************************************)
(* The timed event function blocks E_CYCLE, E_DELAY and E_RDELAY           *)
(* (src/src/stdfblib/timedfb.cpp, events/E_DELAY.cpp, E_RDELAY.cpp,        *)
(* E_CYCLE.h) on top of the timer handler: what their START, STOP and      *)
(* external events do, executed by the event chain execution thread of     *)
(* their resource, and what a management Stop or Start of the block does.  *)
(*                                                                         *)
(* The code keeps its promises only for applications that leave it time.   *)
(* Three constants say how considerate the application is:                 *)
(*   Spaced   a block gets its next command when the timer task has served *)
(*            a whole tick since the last one;                             *)
(*   Prompt   a block's external event is executed before the next tick;   *)
(*   Restart  a START reaches an E_RDELAY that is already active.          *)
(***************************************************************************)
EXTENDS TimerHandler

CONSTANTS Kind,       \* FB -> {"E_CYCLE", "E_DELAY", "E_RDELAY"}
          Delays,     \* values of the DT input, in ticks
          Spaced, Prompt, Restart

ASSUME KindAssumption ==
  /\ Kind \in [FB -> {"E_CYCLE", "E_DELAY", "E_RDELAY"}]
  /\ Periodic = {f \in FB : Kind[f] = "E_CYCLE"}
  /\ Delays \subseteq Nat
  /\ {Spaced, Prompt, Restart} \subseteq BOOLEAN

VARIABLES
  mActive,       \* CTimedFB::mActive
  mFBState,      \* CFunctionBlock state: "RUNNING" or "STOPPED"
  registering,   \* the block whose START is between the two parts of
                 \* registerTimedFB, NoFB if none
  commanded,     \* history: mForteTime when a block's last command was done
  due            \* history: the time before which no EO may be sent

fbVars == <<mActive, mFBState, registering>>
history == <<commanded, due>>
vars == <<mForteTime, mTimedFBList, mAddFBList, mRemoveFBList, mTimeOut,
          mInterval, mNext, tick, pending,
          mActive, mFBState, registering, commanded, due>>

Never == MaxTime + 1

TypeOK ==
  /\ TimerTypeOK
  /\ mActive \in [FB -> BOOLEAN]
  /\ mFBState \in [FB -> {"RUNNING", "STOPPED"}]
  /\ registering \in FB \cup {NoFB}
  /\ commanded \in [FB -> Nat]
  /\ due \in [FB -> Nat]

Init ==
  /\ TimerInit
  /\ mActive = [f \in FB |-> FALSE]
  /\ mFBState = [f \in FB |-> "RUNNING"]
  /\ registering = NoFB
  /\ commanded = [f \in FB |-> Never]
  /\ due = [f \in FB |-> 0]

-----------------------------------------------------------------------------
IsPending(f) == \E i \in DOMAIN pending : pending[i] = f

ServedSince(t) == \/ t = Never
                  \/ mForteTime > t + 1
                  \/ mForteTime > t /\ tick = "idle"

MayCommand(f) == Spaced => ServedSince(commanded[f]) /\ registering # f

Command(f) == commanded' = [commanded EXCEPT ![f] = mForteTime]

(* The ecet is one thread: it executes nothing while it is inside          *)
(* registerTimedFB.                                                        *)
EcetFree == registering = NoFB

BeginRegister(f, dt) ==
  /\ SetTimeOut(f, dt)
  /\ registering' = f
  /\ due' = [due EXCEPT ![f] = mTimeOut'[f]]

(* START of E_CYCLE and E_DELAY: ignored by an active block.               *)
\* A faulty MayStart, in no behaviour of the specification.
AnyMayStart(f) == TRUE
MayStart(f) == ~mActive[f]

StartEvent(f, dt) ==
  /\ EcetFree /\ MayCommand(f) /\ Command(f)
  /\ Kind[f] # "E_RDELAY"
  /\ mFBState[f] = "RUNNING"
  /\ MayStart(f)
  /\ BeginRegister(f, dt)
  /\ UNCHANGED <<mForteTime, mTimedFBList, mAddFBList, mRemoveFBList, mNext,
                 tick, pending, mActive, mFBState>>

(* START of E_RDELAY: an active block is unregistered, then every block is *)
(* registered.                                                             *)
RestartEvent(f, dt) ==
  /\ EcetFree /\ MayCommand(f) /\ Command(f)
  /\ Kind[f] = "E_RDELAY"
  /\ mFBState[f] = "RUNNING"
  /\ IF mActive[f] THEN Restart /\ UnregisterTimedFB(f)
                   ELSE UNCHANGED mRemoveFBList
  /\ BeginRegister(f, dt)
  /\ UNCHANGED <<mForteTime, mTimedFBList, mAddFBList, mNext, tick, pending,
                 mActive, mFBState>>

(* The push, and mActive = true after registerTimedFB has returned.        *)
EndRegister ==
  /\ registering # NoFB
  /\ PushOnAddList(registering)
  /\ mActive' = [mActive EXCEPT ![registering] = TRUE]
  /\ registering' = NoFB
  /\ Command(registering)
  /\ UNCHANGED <<mForteTime, mTimedFBList, mRemoveFBList, mTimeOut, mInterval,
                 tick, pending, mFBState, due>>

(* STOP: an active block leaves the timer.                                 *)
\* A faulty Deactivate, in no behaviour of the specification.
DeactivateFlagOnly(f) ==
  /\ mActive' = [mActive EXCEPT ![f] = FALSE]
  /\ UNCHANGED mRemoveFBList
Deactivate(f) ==
  IF mActive[f]
    THEN /\ UnregisterTimedFB(f)
         /\ mActive' = [mActive EXCEPT ![f] = FALSE]
    ELSE UNCHANGED <<mRemoveFBList, mActive>>

StopEvent(f) ==
  /\ EcetFree /\ MayCommand(f) /\ Command(f)
  /\ mFBState[f] = "RUNNING"
  /\ Deactivate(f)
  /\ UNCHANGED <<mForteTime, mTimedFBList, mAddFBList, entryVars, tick,
                 pending, mFBState, registering, due>>

(* changeFBExecutionState(Stop) from the management thread, which does not *)
(* wait for the ecet; Start follows it some time.                          *)
ManagementStop(f) ==
  /\ MayCommand(f) /\ Command(f)
  /\ mFBState[f] = "RUNNING"
  /\ mFBState' = [mFBState EXCEPT ![f] = "STOPPED"]
  /\ Deactivate(f)
  /\ UNCHANGED <<mForteTime, mTimedFBList, mAddFBList, entryVars, tick,
                 pending, registering, due>>

ManagementStart(f) ==
  /\ MayCommand(f) /\ Command(f)
  /\ mFBState[f] = "STOPPED"
  /\ mFBState' = [mFBState EXCEPT ![f] = "RUNNING"]
  /\ UNCHANGED <<timerVars, mActive, registering, due>>

(* The external event of the block that is first in line: a block that is  *)
(* not running ignores it; a running one sends EO, after which a delay is  *)
(* no longer active.                                                       *)
SendsEO(f) == /\ EcetFree
              /\ pending # <<>>
              /\ Head(pending) = f
              /\ mFBState[f] = "RUNNING"
              /\ pending' = Tail(pending)

Expired(f) ==
  mActive' = IF Kind[f] = "E_CYCLE" THEN mActive
             ELSE [mActive EXCEPT ![f] = FALSE]

ExternalEvent(f) ==
  /\ SendsEO(f)
  /\ Expired(f)
  /\ due' = IF Kind[f] = "E_CYCLE" THEN [due EXCEPT ![f] = @ + mInterval[f]]
            ELSE due
  /\ UNCHANGED <<mForteTime, mTimedFBList, mAddFBList, mRemoveFBList,
                 entryVars, tick, mFBState, registering, commanded>>

IgnoredEvent(f) ==
  /\ EcetFree
  /\ pending # <<>>
  /\ Head(pending) = f
  /\ mFBState[f] = "STOPPED"
  /\ pending' = Tail(pending)
  /\ UNCHANGED <<mForteTime, mTimedFBList, mAddFBList, mRemoveFBList,
                 entryVars, tick, fbVars, history>>

Tick == /\ Prompt => pending = <<>>
        /\ NextTick
        /\ UNCHANGED <<fbVars, history>>

Next ==
  \/ Tick
  \/ ServeTick /\ UNCHANGED <<fbVars, history>>
  \/ EndRegister
  \/ \E f \in FB :
       \/ \E dt \in Delays : StartEvent(f, dt) \/ RestartEvent(f, dt)
       \/ StopEvent(f) \/ ManagementStop(f) \/ ManagementStart(f)
       \/ ExternalEvent(f) \/ IgnoredEvent(f)

Spec == Init /\ [][Next]_vars

-----------------------------------------------------------------------------
(* A block's mActive flag and the timer's lists agree: an active block     *)
(* that is not about to be told of its expiry is on one of the lists, and  *)
(* an inactive one is on neither unless its removal is on order.           *)
ToBeRemoved(f) == \E i \in DOMAIN mRemoveFBList : mRemoveFBList[i] = f

ActiveMeansListed ==
  \A f \in FB : LET listed == f \in TimedEntries \cup AddEntries IN
    /\ mActive[f] /\ ~IsPending(f) /\ registering # f => listed
    /\ tick = "idle" /\ ~mActive[f] /\ ~ToBeRemoved(f) => ~listed

(* No EO before the delay or the cycle time since the last START has       *)
(* passed.  Without Restart: removeTimedFB zeroes the time-out of a        *)
(* restarted E_RDELAY, which then fires as an entry whose time has passed. *)
EONotEarly == [][\A f \in FB : SendsEO(f) => mForteTime >= due[f]]_vars

(* A stopped block falls silent: it sends an EO at most within the tick in *)
(* which its last command, the stop, was given.                            *)
StoppedFallsSilent ==
  [][\A f \in FB : SendsEO(f) => mActive[f] \/ commanded[f] = mForteTime]_vars
=============================================================================
