------------------------------ MODULE LocalComm ------------------------------
(***************************************************************************)
(* Communication inside a device: publisher and subscriber blocks with a   *)
(* "loc" layer (localcomlayer.cpp).  Layers with one ID form a group; a    *)
(* publisher writes its data straight into the outputs of the group's      *)
(* subscribers, in whatever resource they are, under the data locks of its *)
(* own and of the subscriber's resource, and starts an event chain there.  *)
(*                                                                         *)
(* There is one thread per resource; it executes the resource's blocks one *)
(* at a time.                                                              *)
(***************************************************************************)
EXTENDS Integers, Sequences, SequencesExt

CONSTANTS
  Resources, Publishers, Subscribers,
  ResOf,      \* the resource of each block
  IDOf,       \* the ID of each block, the name of its group
  Values,     \* what is published
  NoValue,    \* the initial value of the data, which may also be published
  NumRDs,     \* data outputs of a subscriber
  QueueSize,  \* cg_unCommunicationInterruptQueueSize
  ListSize,   \* events of one subscriber an external event list has room for
  Rough,      \* in which ways the application is rough
  Rank,       \* an order of the resources, data is published upwards only
  NoOwner, NoID, End, Freed

Layers == Publishers \cup Subscribers
IDs == {IDOf[f] : f \in Layers}
SharedID(p, s) == IDOf[p] = IDOf[s]

ASSUME LayerAssumption ==
  /\ Publishers \cap Subscribers = {}
  /\ ResOf \in [Layers -> Resources]
  /\ NoOwner \notin Resources
  /\ NoID \notin IDs
  /\ {End, Freed} \cap Publishers = {} /\ {End, Freed} \cap Subscribers = {}
  /\ End # Freed
  /\ NoID \notin Layers /\ NoValue \in Values
  /\ NumRDs \in Nat \ {0} /\ QueueSize \in Nat \ {0} /\ ListSize \in Nat \ {0}

\* What an application must observe: publishers of two resources that send to
\* each other's take the two locks in opposite orders.
ASSUME RankAssumption ==
  /\ Rank \in [Resources -> Nat]
  /\ \A p \in Publishers, s \in Subscribers :
       SharedID(p, s) /\ ResOf[p] # ResOf[s] => Rank[ResOf[p]] < Rank[ResOf[s]]

VARIABLES
  groups,    \* the IDs of m_lstLocalCommGroups
  publList,  \* m_lPublList of each ID
  sublList,  \* m_lSublList of each ID
  joined,    \* m_poLocalCommGroup of each block's layer, NoID without a layer
  lock,      \* who holds m_oResDataConSync of each resource
  pc,        \* place of each resource's thread
  fb,        \* the block it executes
  at,        \* the subscriber its list iterator stands on
  done,      \* data it has written to that subscriber, or interrupts it counted
  SDs,       \* what each publisher is sending
  RDs,       \* the data outputs of each subscriber
  count,     \* m_unComInterruptQueueCount of each subscriber
  pending,   \* external events of each subscriber
  indicated  \* history: the data of the last indication of each subscriber

groupVars == <<groups, publList, sublList, joined>>
threadVars == <<pc, fb, at, done>>
dataVars == <<SDs, RDs, indicated>>
vars == <<groupVars, lock, threadVars, dataVars, count, pending>>

Init ==
  /\ groups = {}
  /\ publList = [i \in IDs |-> <<>>] /\ sublList = [i \in IDs |-> <<>>]
  /\ joined = [f \in Layers |-> NoID]
  /\ lock = [r \in Resources |-> NoOwner]
  /\ pc = [r \in Resources |-> "idle"]
  /\ fb = [r \in Resources |-> NoID]
  /\ at = [r \in Resources |-> End]
  /\ done = [r \in Resources |-> 0]
  /\ SDs = [p \in Publishers |-> NoValue]
  /\ RDs = [s \in Subscribers |-> [i \in 1 .. NumRDs |-> NoValue]]
  /\ count = [s \in Subscribers |-> 0]
  /\ pending = [s \in Subscribers |-> 0]
  /\ indicated = RDs
-----------------------------------------------------------------------------
(* Groups: every change is made under the manager's lock m_oSync. *)

Place(list, f) == CHOOSE i \in DOMAIN list : list[i] = f

\* removeListEntry
Without(list, f) == RemoveAt(list, Place(list, f))

\* A faulty Vacant, in no behaviour of the specification.
WithoutPublisher(publ, subl) == publ = <<>>

Vacant(publ, subl) == publ = <<>> /\ subl = <<>>

\* openConnection: registerPubl, registerSubl
OpenConnection(f) ==
  LET id == IDOf[f] IN
  /\ pc[ResOf[f]] = "idle" /\ joined[f] = NoID
  /\ joined' = [joined EXCEPT ![f] = id]
  /\ groups' = groups \cup {id}
  /\ publList' = [publList EXCEPT ![id] = IF f \in Publishers THEN Append(@, f) ELSE @]
  /\ sublList' = [sublList EXCEPT ![id] = IF f \in Subscribers THEN Append(@, f) ELSE @]
  /\ UNCHANGED <<lock, threadVars, dataVars, count, pending>>

Walks(r) == pc[r] \in {"walk", "target", "set", "interrupt", "chain", "unlock"}

\* A considerate application closes a subscriber, or lets the manager kill it,
\* when nobody sends to its group and it has handled what was sent.
MayClose(f) ==
  \/ f \in Publishers
  \/ "leave" \in Rough
  \/ /\ f \in Subscribers
     /\ \A r \in Resources : Walks(r) => ~SharedID(fb[r], f)
     /\ count[f] = 0 /\ pending[f] = 0

\* closeConnection: unregisterPubl, unregisterSubl; a list iterator that
\* stands on the removed entry is left with freed memory.
CloseConnection(f) ==
  LET id == joined[f]
      publ == IF f \in Publishers THEN Without(publList[id], f) ELSE publList[id]
      subl == IF f \in Subscribers THEN Without(sublList[id], f) ELSE sublList[id]
  IN
  /\ id # NoID /\ ~(pc[ResOf[f]] # "idle" /\ fb[ResOf[f]] = f) /\ MayClose(f)
  /\ joined' = [joined EXCEPT ![f] = NoID]
  /\ publList' = [publList EXCEPT ![id] = publ]
  /\ sublList' = [sublList EXCEPT ![id] = subl]
  /\ groups' = IF Vacant(publ, subl) THEN groups \ {id} ELSE groups
  /\ at' = [r \in Resources |-> IF at[r] = f THEN Freed ELSE at[r]]
  /\ UNCHANGED <<lock, pc, fb, done, dataVars, count, pending>>
-----------------------------------------------------------------------------
\* The end of what a thread was doing
Idle(r) ==
  /\ pc' = [pc EXCEPT ![r] = "idle"]
  /\ fb' = [fb EXCEPT ![r] = NoID]
  /\ done' = [done EXCEPT ![r] = 0]

(* A publisher: sendData and, for each subscriber, setRDs *)

Successor(list, f) ==
  IF Place(list, f) = Len(list) THEN End ELSE list[Place(list, f) + 1]

Publish(f, v) ==
  LET r == ResOf[f] IN
  /\ pc[r] = "idle" /\ joined[f] # NoID
  /\ SDs' = [SDs EXCEPT ![f] = v]
  /\ fb' = [fb EXCEPT ![r] = f]
  /\ pc' = [pc EXCEPT ![r] = "own"]
  /\ UNCHANGED <<groupVars, lock, at, done, RDs, indicated, count, pending>>

LockOwn(r) ==
  LET list == sublList[joined[fb[r]]] IN
  /\ pc[r] = "own" /\ lock[r] = NoOwner
  /\ lock' = [lock EXCEPT ![r] = r]
  /\ at' = [at EXCEPT ![r] = IF list = <<>> THEN End ELSE Head(list)]
  /\ pc' = [pc EXCEPT ![r] = "walk"]
  /\ UNCHANGED <<groupVars, fb, done, dataVars, count, pending>>

Target(r) == ResOf[at[r]]

\* A faulty NeedsTargetLock, in no behaviour of the specification.
NeedsNoLock(r) == FALSE

\* The lock of the publisher's own resource is held already.
NeedsTargetLock(r) == Target(r) # r

Visit(r) ==
  /\ pc[r] = "walk" /\ at[r] \in Subscribers
  /\ pc' = [pc EXCEPT ![r] = IF NeedsTargetLock(r) THEN "target" ELSE "set"]
  /\ done' = [done EXCEPT ![r] = 0]
  /\ UNCHANGED <<groupVars, lock, fb, at, dataVars, count, pending>>

LockTarget(r) ==
  /\ pc[r] = "target" /\ at[r] # Freed /\ lock[Target(r)] = NoOwner
  /\ lock' = [lock EXCEPT ![Target(r)] = r]
  /\ pc' = [pc EXCEPT ![r] = "set"]
  /\ UNCHANGED <<groupVars, fb, at, done, dataVars, count, pending>>

SetRD(r) ==
  /\ pc[r] = "set" /\ at[r] # Freed
  /\ RDs' = [RDs EXCEPT ![at[r]][done[r] + 1] = SDs[fb[r]]]
  /\ done' = [done EXCEPT ![r] = @ + 1]
  /\ pc' = [pc EXCEPT ![r] = IF done[r] + 1 = NumRDs THEN "interrupt" ELSE "set"]
  /\ UNCHANGED <<groupVars, lock, fb, at, SDs, indicated, count, pending>>

\* A faulty Counted, in no behaviour of the specification.
CountedToo(n) == IF n <= QueueSize THEN n + 1 ELSE n

Counted(n) == IF n < QueueSize THEN n + 1 ELSE n

\* Nothing keeps the increment out of the receiver's decrement, which is made
\* in the two accesses ReadCount and WriteCount.
InterruptCommFB(r) ==
  LET s == at[r] IN
  /\ pc[r] = "interrupt" /\ s # Freed
  /\ count' = [count EXCEPT ![s] = Counted(@)]
  /\ pc' = [pc EXCEPT ![r] = "chain"]
  /\ UNCHANGED <<groupVars, lock, fb, at, done, dataVars, pending>>

StartNewEventChain(r) ==
  LET s == at[r] IN
  /\ pc[r] = "chain" /\ s # Freed
  /\ pending' = [pending EXCEPT ![s] = IF @ < ListSize THEN @ + 1 ELSE @]
  /\ pc' = [pc EXCEPT ![r] = "unlock"]
  /\ UNCHANGED <<groupVars, lock, fb, at, done, dataVars, count>>

\* A faulty UnlockTarget, in no behaviour of the specification.
UnlockOnlyAtEnd(r) ==
  /\ pc[r] = "unlock" /\ at[r] # Freed
  /\ at' = [at EXCEPT ![r] = Successor(sublList[joined[fb[r]]], @)]
  /\ pc' = [pc EXCEPT ![r] = "walk"]
  /\ UNCHANGED <<groupVars, lock, fb, done, dataVars, count, pending>>

\* The end of setRDs and the step to the next subscriber
UnlockTarget(r) ==
  /\ pc[r] = "unlock" /\ at[r] # Freed
  /\ lock' = IF NeedsTargetLock(r) THEN [lock EXCEPT ![Target(r)] = NoOwner] ELSE lock
  /\ at' = [at EXCEPT ![r] = Successor(sublList[joined[fb[r]]], @)]
  /\ pc' = [pc EXCEPT ![r] = "walk"]
  /\ UNCHANGED <<groupVars, fb, done, dataVars, count, pending>>

\* A faulty SendDone, in no behaviour of the specification.
SendDoneLocked(r) ==
  /\ pc[r] = "walk" /\ at[r] = End
  /\ Idle(r)
  /\ SDs' = [SDs EXCEPT ![fb[r]] = NoValue]
  /\ UNCHANGED <<groupVars, lock, at, RDs, indicated, count, pending>>

SendDone(r) ==
  /\ pc[r] = "walk" /\ at[r] = End
  /\ lock' = [lock EXCEPT ![r] = NoOwner]
  /\ Idle(r)
  /\ SDs' = [SDs EXCEPT ![fb[r]] = NoValue]
  /\ UNCHANGED <<groupVars, at, RDs, indicated, count, pending>>
-----------------------------------------------------------------------------
(* A subscriber: receiveData and the indication *)

\* done is the copy of the count; processInterrupt of a local layer only says
\* that there is data.
ExternalEvent(s) ==
  LET r == ResOf[s] IN
  /\ pc[r] = "idle" /\ pending[s] > 0
  /\ pending' = [pending EXCEPT ![s] = @ - 1]
  /\ fb' = [fb EXCEPT ![r] = s]
  /\ done' = [done EXCEPT ![r] = count[s]]
  /\ pc' = [pc EXCEPT ![r] = "receive"]
  /\ UNCHANGED <<groupVars, lock, at, dataVars, count>>

\* A faulty ReadCount, in no behaviour of the specification.
KeepCount(r) ==
  /\ pc[r] = "receive"
  /\ done' = [done EXCEPT ![r] = count[fb[r]]]
  /\ pc' = [pc EXCEPT ![r] = IF done[r] > 0 THEN "subtract" ELSE "subtractNothing"]
  /\ UNCHANGED <<groupVars, lock, fb, at, dataVars, count, pending>>

\* Reads the count again, to write it less the copy: done is the difference.
ReadCount(r) ==
  /\ pc[r] = "receive"
  /\ done' = [done EXCEPT ![r] = count[fb[r]] - @]
  /\ pc' = [pc EXCEPT ![r] = IF done[r] > 0 THEN "subtract" ELSE "subtractNothing"]
  /\ UNCHANGED <<groupVars, lock, fb, at, dataVars, count, pending>>

WriteCount(r) ==
  /\ pc[r] \in {"subtract", "subtractNothing"}
  /\ count' = [count EXCEPT ![fb[r]] = done[r]]
  /\ IF pc[r] = "subtractNothing" THEN Idle(r)
     ELSE /\ pc' = [pc EXCEPT ![r] = "indicate"]
          /\ done' = [done EXCEPT ![r] = 0]
          /\ UNCHANGED fb
  /\ UNCHANGED <<groupVars, lock, at, dataVars, pending>>

\* sendOutputEvent copies the outputs under the resource's lock.
Indicate(r) ==
  /\ pc[r] = "indicate" /\ lock[r] = NoOwner
  /\ indicated' = [indicated EXCEPT ![fb[r]] = RDs[fb[r]]]
  /\ Idle(r)
  /\ UNCHANGED <<groupVars, lock, at, SDs, RDs, count, pending>>

SendStep(r) ==
  \/ LockOwn(r) \/ Visit(r) \/ LockTarget(r) \/ SetRD(r) \/ InterruptCommFB(r)
  \/ StartNewEventChain(r) \/ UnlockTarget(r) \/ SendDone(r)

ReceiveStep(r) == ReadCount(r) \/ WriteCount(r) \/ Indicate(r)

Step(r) == SendStep(r) \/ ReceiveStep(r)

Next ==
  \/ \E f \in Layers : OpenConnection(f) \/ CloseConnection(f)
  \/ \E p \in Publishers, v \in Values : Publish(p, v)
  \/ \E s \in Subscribers : ExternalEvent(s)
  \/ \E r \in Resources : Step(r)

Spec == Init /\ [][Next]_vars

\* Threads of one priority (forte_thread.cpp:21) take turns and a mutex wakes
\* the one that has waited longest, so no thread is passed over for ever.
FairSpec == Spec /\ \A r \in Resources : SF_vars(Step(r))
-----------------------------------------------------------------------------
(* Properties *)

TypeOK ==
  /\ groups \subseteq IDs
  /\ publList \in [IDs -> Seq(Publishers)] /\ sublList \in [IDs -> Seq(Subscribers)]
  /\ joined \in [Layers -> IDs \cup {NoID}]
  /\ lock \in [Resources -> Resources \cup {NoOwner}]
  /\ pc \in [Resources -> {"idle", "own", "walk", "target", "set", "interrupt", "chain",
                           "unlock", "receive", "subtract", "subtractNothing", "indicate"}]
  /\ fb \in [Resources -> Layers \cup {NoID}]
  /\ at \in [Resources -> Subscribers \cup {End, Freed}]
  /\ done \in [Resources -> Int]
  /\ SDs \in [Publishers -> Values]
  /\ RDs \in [Subscribers -> [1 .. NumRDs -> Values]]
  /\ count \in [Subscribers -> 0 .. QueueSize]
  /\ pending \in [Subscribers -> 0 .. ListSize]
  /\ indicated \in [Subscribers -> [1 .. NumRDs -> Values]]

\* A layer is in the list of the group it points to and in no other, once, and
\* the manager keeps a group exactly as long as some layer points to it.
ListAgrees(list, kind, i) ==
  /\ IsInjective(list)
  /\ \A f \in kind : joined[f] = i <=> \E n \in DOMAIN list : list[n] = f

GroupsAgree ==
  /\ \A i \in IDs : ListAgrees(publList[i], Publishers, i)
                  /\ ListAgrees(sublList[i], Subscribers, i)
  /\ groups = {joined[f] : f \in Layers} \ {NoID}

\* A resource's data is locked by its own thread while that sends, by another's
\* while that writes to one of its subscribers, and by nobody else.
Writing(q) == pc[q] \in {"set", "interrupt", "chain", "unlock"}
Sending(q) == Writing(q) \/ pc[q] \in {"walk", "target"}

LocksAreHeld ==
  \A q \in Resources :
    /\ Sending(q) => lock[q] = q
    /\ \A r \in Resources : lock[r] = q =>
         IF r = q THEN Sending(q)
         ELSE Writing(q) /\ (at[q] = Freed \/ Target(q) = r)

\* A thread that waits for a lock waits for one that is running, or for the
\* thread of a resource further up: nobody waits for himself in a circle.
WaitsFor(r) ==
  CASE pc[r] = "target" /\ at[r] \in Subscribers -> lock[Target(r)]
    [] pc[r] \in {"own", "indicate"} -> lock[r]
    [] OTHER -> NoOwner

WaitsUpwards ==
  \A r \in Resources : LET q == WaitsFor(r) IN
    q # NoOwner => q # r /\ (WaitsFor(q) = NoOwner \/ Rank[r] < Rank[q])

\* A subscriber indicates the data of one publication, never a part of one and
\* a part of the next (sendOutputEvent copies its outputs).
IndicatedWhole ==
  \A s \in Subscribers, i, j \in 1 .. NumRDs : indicated[s][i] = indicated[s][j]

\* No publisher's list iterator stands on a subscriber that has left.
NoDeadSubscriber == \A r \in Resources : at[r] # Freed

\* A counted interrupt is never left without an event that will look at it:
\* one is queued, the publisher is about to queue one, or the receiver's thread
\* has yet to take the count back, however full the queue and the event list
\* were and however increments and decrements overlap.  A publisher whose
\* subscriber left under its iterator queues nothing any more.
Taking(s) ==
  pc[ResOf[s]] \in {"receive", "subtract", "subtractNothing"} /\ fb[ResOf[s]] = s

InterruptsAnnounced ==
  \A s \in Subscribers : count[s] > 0 =>
    \/ pending[s] > 0
    \/ \E r \in Resources : pc[r] = "chain" /\ at[r] \in {s, Freed}
    \/ Taking(s)

\* A publisher that starts to send comes to an end of it.
SendEnds == \A r \in Resources : pc[r] = "own" ~> pc[r] = "idle"
=============================================================================
