--------------------------- MODULE LocalCommProofs ---------------------------
(***************************************************************************)
(* Proofs about LocalComm, for all resources, blocks, groups, values and   *)
(* limits, and whatever the application and the processor do.              *)
(*                                                                         *)
(* ThreadInv says where a thread can be with its block and its iterator;   *)
(* the locks that are held then follow, and from the order of the          *)
(* resources that nobody waits in a circle.                                *)
(***************************************************************************)
EXTENDS LocalComm, SequenceTheorems, TLAPS

Receiving(r) == pc[r] \in {"receive", "subtract", "subtractNothing", "indicate"}

PublisherAt ==
  \A r \in Resources : pc[r] = "own" \/ Sending(r) =>
    fb[r] \in Publishers /\ ResOf[fb[r]] = r /\ joined[fb[r]] = IDOf[fb[r]]

SubscriberAt ==
  \A r \in Resources : Receiving(r) => fb[r] \in Subscribers /\ ResOf[fb[r]] = r

IteratorAt ==
  \A r \in Resources :
    /\ Writing(r) \/ pc[r] = "target" => at[r] # End
    /\ at[r] \in Subscribers => Sending(r) /\ joined[at[r]] = IDOf[fb[r]]
    /\ pc[r] = "target" /\ at[r] \in Subscribers => Target(r) # r

CountAt ==
  \A r \in Resources :
    /\ pc[r] = "receive" => done[r] \in 0 .. count[fb[r]]
    /\ pc[r] \in {"subtract", "subtractNothing"} => done[r] \in 0 .. QueueSize

JoinedOwn == \A f \in Layers : joined[f] \in {IDOf[f], NoID}

ThreadInv ==
  /\ TypeOK /\ JoinedOwn /\ GroupsAgree
  /\ PublisherAt /\ SubscriberAt /\ IteratorAt /\ CountAt

-----------------------------------------------------------------------------
(* Lists *)

Holds(list, f) == \E n \in DOMAIN list : list[n] = f

LEMMA PlaceOfMember ==
  ASSUME NEW list, NEW f, Holds(list, f)
  PROVE  Place(list, f) \in DOMAIN list /\ list[Place(list, f)] = f
  BY DEF Place, Holds

\* pushBack keeps a list free of repetitions if it did not hold the layer.
LEMMA AppendHolds ==
  ASSUME NEW S, NEW list \in Seq(S), NEW f \in S, IsInjective(list), ~Holds(list, f)
  PROVE  /\ Append(list, f) \in Seq(S)
         /\ IsInjective(Append(list, f))
         /\ \A x : Holds(Append(list, f), x) <=> x = f \/ Holds(list, x)
  <1> DEFINE new == Append(list, f)
  <1>1. new \in Seq(S) /\ Len(new) = Len(list) + 1 /\ DOMAIN new = 1 .. Len(list) + 1
    OBVIOUS
  <1>2. new[Len(list) + 1] = f /\ \A i \in 1 .. Len(list) : new[i] = list[i]
    OBVIOUS
  <1>3. IsInjective(new)
    BY <1>1, <1>2 DEF IsInjective, Holds
  <1>4. ASSUME NEW x PROVE Holds(new, x) <=> x = f \/ Holds(list, x)
    <2> HIDE DEF new
    <2>1. DOMAIN list = 1 .. Len(list) /\ Len(list) \in Nat
      OBVIOUS
    <2> QED BY <1>1, <1>2, <2>1 DEF Holds
  <1> QED BY <1>1, <1>3, <1>4

\* removeListEntry removes the layer, of which there is one entry, and no other.
LEMMA WithoutHolds ==
  ASSUME NEW S, NEW list \in Seq(S), NEW f, IsInjective(list), Holds(list, f)
  PROVE  /\ Without(list, f) \in Seq(S)
         /\ IsInjective(Without(list, f))
         /\ \A x : Holds(Without(list, f), x) <=> x # f /\ Holds(list, x)
  <1> DEFINE k == Place(list, f)
             front == SubSeq(list, 1, k - 1)
             back == SubSeq(list, k + 1, Len(list))
             new == Without(list, f)
  <1>1. k \in 1 .. Len(list) /\ list[k] = f /\ Len(list) \in Nat
    BY PlaceOfMember
  <1> HIDE DEF k
  <1>2. /\ front \in Seq(S) /\ Len(front) = k - 1
        /\ \A i \in 1 .. k - 1 : front[i] = list[i]
    <2>1. \A i \in 1 .. k - 1 : list[i] \in S
      BY <1>1
    <2> QED BY <1>1, <2>1, SubSeqProperties
  <1>3. /\ back \in Seq(S) /\ Len(back) = Len(list) - k
        /\ \A i \in 1 .. Len(list) - k : back[i] = list[k + i]
    <2>1. \A i \in k + 1 .. Len(list) : list[i] \in S
      BY <1>1
    <2>2. /\ back \in Seq(S)
          /\ Len(back) = IF k + 1 <= Len(list) THEN Len(list) - (k + 1) + 1 ELSE 0
          /\ \A i \in 1 .. Len(list) - (k + 1) + 1 : back[i] = list[(k + 1) + i - 1]
      BY <1>1, <2>1, SubSeqProperties
    <2> QED BY <1>1, <2>2
  <1>4. new = front \o back
    BY DEF Without, RemoveAt, k
  <1> HIDE DEF front, back, new
  <1>5. /\ new \in Seq(S) /\ Len(new) = Len(list) - 1
        /\ \A i \in 1 .. Len(list) - 1 : new[i] = IF i < k THEN list[i] ELSE list[i + 1]
    <2>1. /\ front \o back \in Seq(S) /\ Len(front \o back) = Len(list) - 1
          /\ \A i \in 1 .. Len(list) - 1 : (front \o back)[i] =
               IF i <= Len(front) THEN front[i] ELSE back[i - Len(front)]
      <3>1. /\ front \o back \in Seq(S) /\ Len(front \o back) = Len(front) + Len(back)
            /\ \A i \in 1 .. Len(front) + Len(back) : (front \o back)[i] =
                 IF i <= Len(front) THEN front[i] ELSE back[i - Len(front)]
        BY <1>2, <1>3, ConcatProperties
      <3>2. Len(front) + Len(back) = Len(list) - 1
        BY <1>1, <1>2, <1>3
      <3> QED BY <3>1, <3>2, Zenon
    <2>2. ASSUME NEW i \in 1 .. Len(list) - 1
          PROVE  new[i] = IF i < k THEN list[i] ELSE list[i + 1]
      <3>1. CASE i < k
        BY <1>1, <1>2, <1>4, <2>1, <3>1
      <3>2. CASE ~(i < k)
        <4>1. i - (k - 1) \in 1 .. Len(list) - k /\ k + (i - (k - 1)) = i + 1
          BY <1>1, <3>2
        <4>2. new[i] = back[i - (k - 1)]
          BY <1>1, <1>2, <1>4, <2>1, <3>2
        <4> QED BY <1>3, <3>2, <4>1, <4>2
      <3> QED BY <3>1, <3>2
    <2> QED BY <1>4, <2>1, <2>2
  <1>6. DOMAIN new = 1 .. Len(list) - 1 /\ DOMAIN list = 1 .. Len(list)
    BY <1>5
  <1>7. \A i, j \in 1 .. Len(list) : list[i] = list[j] => i = j
    BY <1>6 DEF IsInjective
  <1>8. IsInjective(new)
    <2> SUFFICES ASSUME NEW i \in 1 .. Len(list) - 1, NEW j \in 1 .. Len(list) - 1,
                        new[i] = new[j]
                 PROVE  i = j
      BY <1>6 DEF IsInjective
    <2> DEFINE i0 == IF i < k THEN i ELSE i + 1
               j0 == IF j < k THEN j ELSE j + 1
    <2>1. i0 \in 1 .. Len(list) /\ j0 \in 1 .. Len(list)
      BY <1>1
    <2>2. list[i0] = list[j0]
      BY <1>5
    <2>3. i0 = j0
      BY <1>7, <2>1, <2>2
    <2> QED BY <1>1, <2>3
  <1>9. ASSUME NEW x PROVE Holds(new, x) <=> x # f /\ Holds(list, x)
    <2>1. ASSUME Holds(new, x) PROVE x # f /\ Holds(list, x)
      <3>1. PICK i \in 1 .. Len(list) - 1 : new[i] = x
        BY <1>6, <2>1 DEF Holds
      <3> DEFINE i0 == IF i < k THEN i ELSE i + 1
      <3>2. i0 \in 1 .. Len(list) /\ i0 # k /\ list[i0] = x
        BY <1>1, <1>5, <3>1
      <3> QED BY <1>1, <1>6, <1>7, <3>2 DEF Holds
    <2>2. ASSUME x # f, Holds(list, x) PROVE Holds(new, x)
      <3>1. PICK i \in 1 .. Len(list) : list[i] = x
        BY <1>6, <2>2 DEF Holds
      <3>2. i # k
        BY <1>1, <2>2, <3>1
      <3> DEFINE i0 == IF i < k THEN i ELSE i - 1
      <3>3. i0 \in 1 .. Len(list) - 1
        BY <1>1, <3>1, <3>2
      <3>4. new[i0] = IF i0 < k THEN list[i0] ELSE list[i0 + 1]
        BY <1>5, <3>3
      <3>5. new[i0] = x
        BY <1>1, <3>1, <3>2, <3>4
      <3> QED BY <1>6, <3>3, <3>5 DEF Holds
    <2> QED BY <2>1, <2>2
  <1> QED BY <1>5, <1>8, <1>9, Zenon DEF new

-----------------------------------------------------------------------------
(* Threads, blocks and iterators *)

LEMMA InitInv == Init => ThreadInv
  <1> SUFFICES ASSUME Init PROVE ThreadInv
    OBVIOUS
  <1>1. TypeOK
    BY LayerAssumption DEF Init, TypeOK, Layers, IDs
  <1>2. GroupsAgree
    <2>1. ASSUME NEW i \in IDs
          PROVE  ListAgrees(publList[i], Publishers, i) /\ ListAgrees(sublList[i], Subscribers, i)
      <3>1. publList[i] = <<>> /\ sublList[i] = <<>> /\ \A f \in Layers : joined[f] # i
        BY LayerAssumption DEF Init
      <3>2. DOMAIN <<>> = {}
        OBVIOUS
      <3> QED BY <3>1, <3>2 DEF ListAgrees, IsInjective, Layers
    <2>2. groups = {joined[f] : f \in Layers} \ {NoID}
      BY DEF Init
    <2> QED BY <2>1, <2>2 DEF GroupsAgree
  <1>3. JoinedOwn /\ PublisherAt /\ SubscriberAt /\ IteratorAt /\ CountAt
    BY LayerAssumption DEF JoinedOwn, Init, PublisherAt, SubscriberAt, IteratorAt, CountAt, Sending,
                           Writing, Receiving, Target
  <1> QED BY <1>1, <1>2, <1>3 DEF ThreadInv

LEMMA GroupsKept ==
  GroupsAgree /\ JoinedOwn /\ UNCHANGED groupVars => GroupsAgree' /\ JoinedOwn'
  BY DEF GroupsAgree, JoinedOwn, ListAgrees, groupVars

\* The first subscriber of a list, and the one after another, is in the list.
LEMMA NextSubscriber ==
  ASSUME ThreadInv, NEW i \in IDs
  PROVE  /\ sublList[i] # <<>> => /\ Head(sublList[i]) \in Subscribers
                                 /\ joined[Head(sublList[i])] = i
         /\ \A s \in Subscribers : joined[s] = i =>
              \/ Successor(sublList[i], s) = End
              \/ /\ Successor(sublList[i], s) \in Subscribers
                 /\ joined[Successor(sublList[i], s)] = i
  <1> DEFINE list == sublList[i]
  <1>1. list \in Seq(Subscribers)
    BY DEF ThreadInv, TypeOK
  <1>2. \A f \in Subscribers : joined[f] = i <=> Holds(list, f)
    BY DEF ThreadInv, GroupsAgree, ListAgrees, Holds
  <1> HIDE DEF list
  <1>3. \A n \in 1 .. Len(list) : list[n] \in Subscribers /\ joined[list[n]] = i
    BY <1>1, <1>2 DEF Holds
  <1>4. list # <<>> => Head(list) = list[1] /\ 1 \in 1 .. Len(list)
    BY <1>1
  <1>5. ASSUME NEW s \in Subscribers, joined[s] = i
        PROVE  \/ Successor(list, s) = End
               \/ Successor(list, s) \in Subscribers /\ joined[Successor(list, s)] = i
    <2>1. Place(list, s) \in 1 .. Len(list)
      BY <1>1, <1>2, <1>5, PlaceOfMember
    <2>2. CASE Place(list, s) = Len(list)
      BY <2>2 DEF Successor
    <2>3. CASE Place(list, s) # Len(list)
      <3>1. Place(list, s) + 1 \in 1 .. Len(list)
        BY <1>1, <2>1, <2>3
      <3> QED BY <1>3, <2>3, <3>1 DEF Successor
    <2> QED BY <2>2, <2>3
  <1> QED BY <1>3, <1>4, <1>5 DEF list

\* A thread's step: its own place changes and nobody else's.
LEMMA StepInv ==
  ASSUME ThreadInv, NEW r \in Resources, Step(r)
  PROVE  ThreadInv'
  <1> USE LayerAssumption DEF ThreadInv, JoinedOwn, Idle, groupVars, dataVars
  <1>1. \/ joined[fb[r]] = IDOf[fb[r]] /\ IDOf[fb[r]] \in IDs /\ fb[r] \in Publishers
        \/ ~(pc[r] = "own" \/ Sending(r))
    BY DEF PublisherAt, IDs, Layers
  <1>2. CASE LockOwn(r)
    <2>1. TypeOK'
      BY <1>1, <1>2, NextSubscriber DEF LockOwn, TypeOK, SubscriberAt, IteratorAt, CountAt, Receiving, Sending, Writing, Counted
    <2>2. GroupsAgree' /\ JoinedOwn'
      BY <1>2, GroupsKept DEF LockOwn
    <2>3. PublisherAt' /\ SubscriberAt'
      BY <1>2 DEF LockOwn, TypeOK, PublisherAt, SubscriberAt, Sending, Writing, Receiving
    <2>4. IteratorAt'
      BY SMTT(40), <1>1, <1>2, NextSubscriber DEF LockOwn, TypeOK, IteratorAt, Sending, Writing, Target
    <2>5. CountAt'
      BY <1>2 DEF LockOwn, TypeOK, CountAt, SubscriberAt, Receiving, Counted
    <2> QED BY <2>1, <2>2, <2>3, <2>4, <2>5
  <1>3. CASE Visit(r)
    <2>1. TypeOK'
      BY <1>1, <1>3, NextSubscriber DEF Visit, TypeOK, SubscriberAt, IteratorAt, CountAt, Receiving, Sending, Writing, Counted
    <2>2. GroupsAgree' /\ JoinedOwn'
      BY <1>3, GroupsKept DEF Visit
    <2>3. PublisherAt' /\ SubscriberAt'
      BY <1>3 DEF Visit, TypeOK, PublisherAt, SubscriberAt, Sending, Writing, Receiving
    <2>4. IteratorAt'
      BY <1>1, <1>3, NextSubscriber DEF Visit, TypeOK, IteratorAt, Sending, Writing, Target, NeedsTargetLock
    <2>5. CountAt'
      BY <1>3 DEF Visit, TypeOK, CountAt, SubscriberAt, Receiving, Counted
    <2> QED BY <2>1, <2>2, <2>3, <2>4, <2>5
  <1>4. CASE LockTarget(r)
    <2>1. TypeOK'
      BY <1>1, <1>4, NextSubscriber DEF LockTarget, TypeOK, SubscriberAt, IteratorAt, CountAt, Receiving, Sending, Writing, Counted
    <2>2. GroupsAgree' /\ JoinedOwn'
      BY <1>4, GroupsKept DEF LockTarget
    <2>3. PublisherAt' /\ SubscriberAt'
      BY <1>4 DEF LockTarget, TypeOK, PublisherAt, SubscriberAt, Sending, Writing, Receiving
    <2>4. IteratorAt'
      BY <1>1, <1>4, NextSubscriber DEF LockTarget, TypeOK, IteratorAt, Sending, Writing, Target
    <2>5. CountAt'
      BY <1>4 DEF LockTarget, TypeOK, CountAt, SubscriberAt, Receiving, Counted
    <2> QED BY <2>1, <2>2, <2>3, <2>4, <2>5
  <1>5. CASE SetRD(r)
    <2>1. TypeOK'
      <3>1. at[r] \in Subscribers /\ SDs[fb[r]] \in Values
        BY <1>1, <1>5 DEF SetRD, TypeOK, IteratorAt, Sending, Writing
      <3>2. RDs' \in [Subscribers -> [1 .. NumRDs -> Values]]
        BY <1>5, <3>1 DEF SetRD, TypeOK
      <3> QED BY <1>5, <3>2 DEF SetRD, TypeOK
    <2>2. GroupsAgree' /\ JoinedOwn'
      BY <1>5, GroupsKept DEF SetRD
    <2>3. PublisherAt' /\ SubscriberAt'
      BY <1>5 DEF SetRD, TypeOK, PublisherAt, SubscriberAt, Sending, Writing, Receiving
    <2>4. IteratorAt'
      BY <1>1, <1>5, NextSubscriber DEF SetRD, TypeOK, IteratorAt, Sending, Writing, Target
    <2>5. CountAt'
      BY <1>5 DEF SetRD, TypeOK, CountAt, SubscriberAt, Receiving, Counted
    <2> QED BY <2>1, <2>2, <2>3, <2>4, <2>5
  <1>6. CASE InterruptCommFB(r)
    <2>1. TypeOK'
      <3>1. at[r] \in Subscribers BY <1>6 DEF InterruptCommFB, TypeOK, IteratorAt, Writing
      <3>2. Counted(count[at[r]]) \in 0 .. QueueSize BY <3>1 DEF TypeOK, Counted
      <3>3. count' \in [Subscribers -> 0 .. QueueSize]
        BY <1>6, <3>1, <3>2 DEF InterruptCommFB, TypeOK
      <3> QED BY <1>6, <3>3 DEF InterruptCommFB, TypeOK
    <2>2. GroupsAgree' /\ JoinedOwn'
      BY <1>6, GroupsKept DEF InterruptCommFB
    <2>3. PublisherAt' /\ SubscriberAt'
      BY <1>6 DEF InterruptCommFB, TypeOK, PublisherAt, SubscriberAt, Sending, Writing, Receiving
    <2>4. IteratorAt'
      BY <1>1, <1>6, NextSubscriber DEF InterruptCommFB, TypeOK, IteratorAt, Sending, Writing, Target
    <2>5. CountAt'
      BY <1>6 DEF InterruptCommFB, TypeOK, CountAt, SubscriberAt, Receiving, Counted
    <2> QED BY <2>1, <2>2, <2>3, <2>4, <2>5
  <1>7. CASE StartNewEventChain(r)
    <2>1. TypeOK'
      BY SMTT(40), <1>1, <1>7, NextSubscriber DEF StartNewEventChain, TypeOK, SubscriberAt, IteratorAt, CountAt, Receiving, Sending, Writing, Counted
    <2>2. GroupsAgree' /\ JoinedOwn'
      BY <1>7, GroupsKept DEF StartNewEventChain
    <2>3. PublisherAt' /\ SubscriberAt'
      BY <1>7 DEF StartNewEventChain, TypeOK, PublisherAt, SubscriberAt, Sending, Writing, Receiving
    <2>4. IteratorAt'
      BY <1>1, <1>7, NextSubscriber DEF StartNewEventChain, TypeOK, IteratorAt, Sending, Writing, Target
    <2>5. CountAt'
      BY <1>7 DEF StartNewEventChain, TypeOK, CountAt, SubscriberAt, Receiving, Counted
    <2> QED BY <2>1, <2>2, <2>3, <2>4, <2>5
  <1>8. CASE UnlockTarget(r)
    <2>1. TypeOK'
      <3>1. at[r] \in Subscribers /\ Target(r) \in Resources
        BY <1>8 DEF UnlockTarget, TypeOK, IteratorAt, Writing, Target, Layers
      <3>2. at' \in [Resources -> Subscribers \cup {End, Freed}]
        <4> DEFINE next == Successor(sublList[joined[fb[r]]], at[r])
        <4>1. joined[fb[r]] \in IDs /\ joined[at[r]] = joined[fb[r]]
          BY <1>1, <1>8, <3>1 DEF UnlockTarget, TypeOK, IteratorAt, Sending, Writing
        <4>2. next \in Subscribers \cup {End}
          BY <3>1, <4>1, NextSubscriber
        <4>3. at' = [at EXCEPT ![r] = next] /\ at \in [Resources -> Subscribers \cup {End, Freed}]
          BY <1>8 DEF UnlockTarget, TypeOK
        <4> HIDE DEF next
        <4> QED BY <4>2, <4>3
      <3>3. lock' \in [Resources -> Resources \cup {NoOwner}]
        BY <1>8, <3>1 DEF UnlockTarget, TypeOK
      <3> QED BY <1>8, <3>2, <3>3 DEF UnlockTarget, TypeOK
    <2>2. GroupsAgree' /\ JoinedOwn'
      BY <1>8, GroupsKept DEF UnlockTarget
    <2>3. PublisherAt' /\ SubscriberAt'
      BY <1>8 DEF UnlockTarget, TypeOK, PublisherAt, SubscriberAt, Sending, Writing, Receiving
    <2>4. IteratorAt'
      <3>1. at[r] \in Subscribers /\ joined[at[r]] = IDOf[fb[r]] /\ joined[fb[r]] = IDOf[fb[r]]
        BY <1>1, <1>8 DEF UnlockTarget, TypeOK, IteratorAt, Sending, Writing
      <3>2. \/ at'[r] = End
            \/ at'[r] \in Subscribers /\ joined[at'[r]] = IDOf[fb[r]]
        BY SMTT(40), <1>1, <1>8, <3>1, NextSubscriber DEF UnlockTarget, TypeOK, Sending, Writing
      <3>3. /\ pc' = [pc EXCEPT ![r] = "walk"] /\ UNCHANGED <<fb, joined>>
            /\ \A q \in Resources \ {r} : at'[q] = at[q]
        BY <1>8 DEF UnlockTarget, TypeOK
      <3> QED BY <3>2, <3>3 DEF TypeOK, IteratorAt, Sending, Writing, Target
    <2>5. CountAt'
      BY <1>8 DEF UnlockTarget, TypeOK, CountAt, SubscriberAt, Receiving, Counted
    <2> QED BY <2>1, <2>2, <2>3, <2>4, <2>5
  <1>9. CASE SendDone(r)
    <2>1. TypeOK'
      BY <1>1, <1>9, NextSubscriber DEF SendDone, TypeOK, SubscriberAt, IteratorAt, CountAt, Receiving, Sending, Writing, Counted
    <2>2. GroupsAgree' /\ JoinedOwn'
      BY <1>9, GroupsKept DEF SendDone
    <2>3. PublisherAt' /\ SubscriberAt'
      BY <1>9 DEF SendDone, TypeOK, PublisherAt, SubscriberAt, Sending, Writing, Receiving
    <2>4. IteratorAt'
      BY <1>1, <1>9, NextSubscriber DEF SendDone, TypeOK, IteratorAt, Sending, Writing, Target
    <2>5. CountAt'
      BY <1>9 DEF SendDone, TypeOK, CountAt, SubscriberAt, Receiving, Counted
    <2> QED BY <2>1, <2>2, <2>3, <2>4, <2>5
  <1>10. CASE ReadCount(r)
    <2>1. TypeOK'
      BY <1>1, <1>10, NextSubscriber DEF ReadCount, TypeOK, SubscriberAt, IteratorAt, CountAt, Receiving, Sending, Writing, Counted
    <2>2. GroupsAgree' /\ JoinedOwn'
      BY <1>10, GroupsKept DEF ReadCount
    <2>3. PublisherAt' /\ SubscriberAt'
      BY <1>10 DEF ReadCount, TypeOK, PublisherAt, SubscriberAt, Sending, Writing, Receiving
    <2>4. IteratorAt'
      BY <1>1, <1>10, NextSubscriber DEF ReadCount, TypeOK, IteratorAt, Sending, Writing, Target
    <2>5. CountAt'
      BY <1>10 DEF ReadCount, TypeOK, CountAt, SubscriberAt, Receiving, Counted
    <2> QED BY <2>1, <2>2, <2>3, <2>4, <2>5
  <1>11. CASE WriteCount(r)
    <2>1. /\ fb[r] \in Subscribers /\ ResOf[fb[r]] = r /\ done[r] \in 0 .. QueueSize
          /\ ~Sending(r)
      BY <1>11 DEF WriteCount, SubscriberAt, CountAt, Receiving, Sending, Writing
    <2>2. /\ pc' = [pc EXCEPT ![r] = IF pc[r] = "subtract" THEN "indicate" ELSE "idle"]
          /\ fb' = [fb EXCEPT ![r] = IF pc[r] = "subtract" THEN @ ELSE NoID]
          /\ done' = [done EXCEPT ![r] = 0]
          /\ count' = [count EXCEPT ![fb[r]] = done[r]]
          /\ UNCHANGED <<groupVars, lock, at, dataVars, pending>>
      BY <1>11 DEF WriteCount, TypeOK
    <2>3. TypeOK'
      BY <2>1, <2>2 DEF TypeOK
    <2>4. GroupsAgree' /\ JoinedOwn'
      BY <2>2, GroupsKept
    <2>5. PublisherAt' /\ SubscriberAt'
      BY <2>1, <2>2 DEF TypeOK, PublisherAt, SubscriberAt, Sending, Writing, Receiving
    <2>6. IteratorAt'
      BY <2>1, <2>2 DEF TypeOK, IteratorAt, Sending, Writing, Target
    <2>7. CountAt'
      <3> SUFFICES ASSUME NEW q \in Resources, q # r
                   PROVE  /\ pc[q] = "receive" => done[q] \in 0 .. count'[fb[q]]
                          /\ pc[q] \in {"subtract", "subtractNothing"} =>
                               done[q] \in 0 .. QueueSize
        BY <2>2 DEF TypeOK, CountAt
      <3>1. pc[q] = "receive" => fb[q] # fb[r]
        BY <2>1 DEF SubscriberAt, Receiving
      <3> QED BY <2>2, <3>1 DEF TypeOK, CountAt
    <2> QED BY <2>3, <2>4, <2>5, <2>6, <2>7
  <1>12. CASE Indicate(r)
    <2>1. TypeOK'
      BY <1>1, <1>12, NextSubscriber DEF Indicate, TypeOK, SubscriberAt, IteratorAt, CountAt, Receiving, Sending, Writing, Counted
    <2>2. GroupsAgree' /\ JoinedOwn'
      BY <1>12, GroupsKept DEF Indicate
    <2>3. PublisherAt' /\ SubscriberAt'
      BY <1>12 DEF Indicate, TypeOK, PublisherAt, SubscriberAt, Sending, Writing, Receiving
    <2>4. IteratorAt'
      BY <1>1, <1>12, NextSubscriber DEF Indicate, TypeOK, IteratorAt, Sending, Writing, Target
    <2>5. CountAt'
      BY <1>12 DEF Indicate, TypeOK, CountAt, SubscriberAt, Receiving, Counted
    <2> QED BY <2>1, <2>2, <2>3, <2>4, <2>5
  <1> QED BY <1>2, <1>3, <1>4, <1>5, <1>6, <1>7, <1>8, <1>9, <1>10, <1>11, <1>12 DEF Step, SendStep, ReceiveStep

LEMMA OpenInv == ASSUME ThreadInv, NEW f \in Layers, OpenConnection(f) PROVE ThreadInv'
  <1> DEFINE id == IDOf[f]
  <1> USE DEF ThreadInv
  <1>1. id \in IDs /\ joined[f] = NoID /\ joined' = [joined EXCEPT ![f] = id] /\ id # NoID
    BY LayerAssumption DEF OpenConnection, IDs
  <1>2. UNCHANGED <<lock, threadVars, dataVars, count, pending>>
    BY DEF OpenConnection
  <1> HIDE DEF id
  <1>3. ASSUME NEW kind, kind = Publishers \/ kind = Subscribers,
               NEW lists, lists \in [IDs -> Seq(kind)],
               NEW lists2, lists2 = [lists EXCEPT ![id] = IF f \in kind THEN Append(@, f) ELSE @],
               \A i \in IDs : ListAgrees(lists[i], kind, i)
        PROVE  /\ lists2 \in [IDs -> Seq(kind)]
               /\ \A i \in IDs : ListAgrees(lists2[i], kind, i)'
    <2>1. f \in kind => /\ Append(lists[id], f) \in Seq(kind)
                       /\ IsInjective(Append(lists[id], f))
                       /\ \A x : Holds(Append(lists[id], f), x) <=> x = f \/ Holds(lists[id], x)
      <3> SUFFICES ASSUME f \in kind PROVE ~Holds(lists[id], f)
        BY <1>1, <1>3, AppendHolds DEF ListAgrees
      <3> QED BY <1>1, <1>3 DEF ListAgrees, Holds
    <2>2. lists2 \in [IDs -> Seq(kind)]
      BY <1>1, <1>3, <2>1
    <2>3. ASSUME NEW i \in IDs PROVE ListAgrees(lists2[i], kind, i)'
      <3>1. \A x \in kind : joined'[x] = IF x = f THEN id ELSE joined[x]
        BY <1>1, <1>3 DEF TypeOK, Layers
      <3>2. IsInjective(lists[i]) /\ \A x \in kind : joined[x] = i <=> Holds(lists[i], x)
        BY <1>3 DEF ListAgrees, Holds
      <3>3. CASE i = id /\ f \in kind
        <4>1. lists2[i] = Append(lists[id], f)
          BY <1>1, <1>3, <3>3
        <4>2. IsInjective(lists2[i])
          BY <2>1, <3>3, <4>1
        <4>3. \A x \in kind : joined'[x] = i <=> Holds(lists2[i], x)
          BY <2>1, <3>1, <3>2, <3>3, <4>1
        <4> QED BY <4>2, <4>3 DEF ListAgrees, Holds
      <3>4. CASE ~(i = id /\ f \in kind)
        <4>1. lists2[i] = lists[i]
          BY <1>1, <1>3, <3>4
        <4>2. \A x \in kind : joined'[x] = i <=> Holds(lists2[i], x)
          BY <1>1, <3>1, <3>2, <3>4, <4>1, LayerAssumption
        <4> QED BY <3>2, <4>1, <4>2 DEF ListAgrees, Holds
      <3> QED BY <3>3, <3>4
    <2> QED BY <2>2, <2>3
  <1>4. publList' = [publList EXCEPT ![id] = IF f \in Publishers THEN Append(@, f) ELSE @]
    BY DEF OpenConnection, id
  <1>5. sublList' = [sublList EXCEPT ![id] = IF f \in Subscribers THEN Append(@, f) ELSE @]
    BY DEF OpenConnection, id
  <1>6. /\ publList' \in [IDs -> Seq(Publishers)]
        /\ \A i \in IDs : ListAgrees(publList[i], Publishers, i)'
    BY <1>3, <1>4 DEF TypeOK, GroupsAgree
  <1>7. /\ sublList' \in [IDs -> Seq(Subscribers)]
        /\ \A i \in IDs : ListAgrees(sublList[i], Subscribers, i)'
    BY <1>3, <1>5 DEF TypeOK, GroupsAgree
  <1>8. groups' = groups \cup {id}
    BY DEF OpenConnection, id
  <1>9. TypeOK'
    BY <1>1, <1>2, <1>6, <1>7, <1>8 DEF TypeOK, threadVars, dataVars
  <1>10. groups' = {joined'[x] : x \in Layers} \ {NoID}
    BY <1>1, <1>8 DEF TypeOK, GroupsAgree
  <1>11. GroupsAgree' /\ JoinedOwn'
    BY <1>1, <1>6, <1>7, <1>10 DEF GroupsAgree, JoinedOwn, TypeOK, id
  <1>12. \A x \in Layers : joined[x] # NoID => joined'[x] = joined[x]
    BY <1>1 DEF TypeOK
  <1>13. PublisherAt'
    BY <1>2, <1>12, LayerAssumption DEF PublisherAt, threadVars, Sending, Writing, Layers, IDs
  <1>14. IteratorAt'
    <2>1. ASSUME NEW q \in Resources, at[q] \in Subscribers
          PROVE  Sending(q) /\ joined'[at[q]] = IDOf[fb[q]]
      <3>1. Sending(q) /\ joined[at[q]] = IDOf[fb[q]] /\ IDOf[fb[q]] # NoID
        BY <2>1, LayerAssumption DEF IteratorAt, PublisherAt, IDs, Layers
      <3> QED BY <1>12, <2>1, <3>1 DEF Layers
    <2> QED BY <1>2, <2>1 DEF IteratorAt, threadVars, Sending, Writing, Target
  <1>15. SubscriberAt' /\ CountAt'
    BY <1>2 DEF SubscriberAt, CountAt, Receiving, threadVars
  <1> QED BY <1>9, <1>11, <1>13, <1>14, <1>15

LEMMA CloseInv == ASSUME ThreadInv, NEW f \in Layers, CloseConnection(f) PROVE ThreadInv'
  <1> DEFINE id == joined[f]
  <1> USE DEF ThreadInv
  <1>1. id \in IDs /\ joined' = [joined EXCEPT ![f] = NoID]
    BY DEF CloseConnection, TypeOK
  <1>2. UNCHANGED <<lock, pc, fb, done, dataVars, count, pending>>
    BY DEF CloseConnection
  <1>3. at' = [r \in Resources |-> IF at[r] = f THEN Freed ELSE at[r]]
    BY DEF CloseConnection
  <1> HIDE DEF id
  <1>4. ASSUME NEW kind, kind = Publishers \/ kind = Subscribers,
               NEW lists, lists \in [IDs -> Seq(kind)],
               NEW lists2,
               lists2 = [lists EXCEPT ![id] = IF f \in kind THEN Without(@, f) ELSE @],
               \A i \in IDs : ListAgrees(lists[i], kind, i)
        PROVE  /\ lists2 \in [IDs -> Seq(kind)]
               /\ \A i \in IDs : ListAgrees(lists2[i], kind, i)'
    <2>1. f \in kind =>
            /\ Without(lists[id], f) \in Seq(kind)
            /\ IsInjective(Without(lists[id], f))
            /\ \A x : Holds(Without(lists[id], f), x) <=> x # f /\ Holds(lists[id], x)
      <3> SUFFICES ASSUME f \in kind PROVE Holds(lists[id], f) /\ IsInjective(lists[id])
        BY <1>1, <1>4, WithoutHolds
      <3> QED BY <1>1, <1>4 DEF ListAgrees, Holds, id
    <2>2. lists2 \in [IDs -> Seq(kind)]
      BY <1>1, <1>4, <2>1
    <2>3. ASSUME NEW i \in IDs PROVE ListAgrees(lists2[i], kind, i)'
      <3>1. \A x \in kind : joined'[x] = IF x = f THEN NoID ELSE joined[x]
        BY <1>1, <1>4 DEF TypeOK, Layers
      <3>2. IsInjective(lists[i]) /\ \A x \in kind : joined[x] = i <=> Holds(lists[i], x)
        BY <1>4 DEF ListAgrees, Holds
      <3>3. CASE i = id /\ f \in kind
        <4>1. lists2[i] = Without(lists[id], f)
          BY <1>1, <1>4, <3>3
        <4>2. IsInjective(lists2[i])
          BY <2>1, <3>3, <4>1
        <4>3. \A x \in kind : joined'[x] = i <=> Holds(lists2[i], x)
          BY <2>1, <3>1, <3>2, <3>3, <4>1, LayerAssumption
        <4> QED BY <4>2, <4>3 DEF ListAgrees, Holds
      <3>4. CASE ~(i = id /\ f \in kind)
        <4>1. lists2[i] = lists[i]
          BY <1>1, <1>4, <3>4
        <4>2. f \in kind => joined[f] # i
          BY <3>4 DEF id
        <4>3. \A x \in kind : joined'[x] = i <=> Holds(lists2[i], x)
          BY <3>1, <3>2, <4>1, <4>2, LayerAssumption
        <4> QED BY <3>2, <4>1, <4>3 DEF ListAgrees, Holds
      <3> QED BY <3>3, <3>4
    <2> QED BY <2>2, <2>3
  <1>5. publList' = [publList EXCEPT ![id] = IF f \in Publishers THEN Without(@, f) ELSE @]
    BY DEF CloseConnection, id
  <1>6. sublList' = [sublList EXCEPT ![id] = IF f \in Subscribers THEN Without(@, f) ELSE @]
    BY DEF CloseConnection, id
  <1>7. /\ publList' \in [IDs -> Seq(Publishers)]
        /\ \A i \in IDs : ListAgrees(publList[i], Publishers, i)'
    BY <1>4, <1>5 DEF TypeOK, GroupsAgree
  <1>8. /\ sublList' \in [IDs -> Seq(Subscribers)]
        /\ \A i \in IDs : ListAgrees(sublList[i], Subscribers, i)'
    BY <1>4, <1>6 DEF TypeOK, GroupsAgree
  <1>9. groups' = IF publList'[id] = <<>> /\ sublList'[id] = <<>> THEN groups \ {id} ELSE groups
    BY <1>1, <1>5, <1>6 DEF CloseConnection, id, Vacant, TypeOK
  <1>10. groups' = {joined'[x] : x \in Layers} \ {NoID}
    <2>1. (publList'[id] = <<>> /\ sublList'[id] = <<>>) <=> \A x \in Layers : joined'[x] # id
      <3>1. \A x \in Publishers : joined'[x] = id <=> Holds(publList'[id], x)
        BY <1>1, <1>7 DEF ListAgrees, Holds
      <3>2. \A x \in Subscribers : joined'[x] = id <=> Holds(sublList'[id], x)
        BY <1>1, <1>8 DEF ListAgrees, Holds
      <3>3. ASSUME NEW S, NEW list \in Seq(S)
            PROVE  list = <<>> <=> \A x \in S : ~Holds(list, x)
        <4>1. list = <<>> <=> DOMAIN list = {}
          OBVIOUS
        <4>2. \A n \in DOMAIN list : list[n] \in S
          OBVIOUS
        <4> QED BY <4>1, <4>2 DEF Holds
      <3> QED BY <1>1, <1>7, <1>8, <3>1, <3>2, <3>3 DEF Layers
    <2>2. groups = {joined[x] : x \in Layers} \ {NoID}
      BY DEF GroupsAgree
    <2>3. \A x \in Layers : joined'[x] = IF x = f THEN NoID ELSE joined[x]
      BY <1>1 DEF TypeOK
    <2>4. id # NoID /\ id = joined[f]
      BY <1>1, LayerAssumption DEF id
    <2> QED BY <1>9, <2>1, <2>2, <2>3, <2>4
  <1>11. TypeOK'
    <2>1. groups' \subseteq IDs /\ joined' \in [Layers -> IDs \cup {NoID}]
      BY <1>1, <1>9 DEF TypeOK
    <2>2. at' \in [Resources -> Subscribers \cup {End, Freed}]
      BY <1>3 DEF TypeOK
    <2> QED BY <1>2, <1>7, <1>8, <2>1, <2>2 DEF TypeOK, dataVars
  <1>12. GroupsAgree' /\ JoinedOwn'
    BY <1>1, <1>7, <1>8, <1>10 DEF GroupsAgree, JoinedOwn, TypeOK
  <1>13. PublisherAt'
    <2> SUFFICES ASSUME NEW r \in Resources, pc[r] = "own" \/ Sending(r)
                 PROVE  fb[r] # f
      BY <1>1, <1>2 DEF PublisherAt, Sending, Writing, TypeOK, Layers
    <2>1. pc[r] # "idle" /\ ResOf[fb[r]] = r
      BY DEF PublisherAt, Sending, Writing
    <2> QED BY <2>1 DEF CloseConnection
  <1>14. IteratorAt'
    <2>1. ASSUME NEW q \in Resources, at'[q] \in Subscribers
          PROVE  at'[q] = at[q] /\ Sending(q) /\ joined'[at[q]] = IDOf[fb[q]]
      <3>1. at'[q] = at[q] /\ at[q] # f
        BY <1>3, <2>1, LayerAssumption
      <3> QED BY <1>1, <2>1, <3>1 DEF IteratorAt, TypeOK, Layers
    <2>2. \A q \in Resources : at[q] # End => at'[q] # End
      BY <1>3, LayerAssumption
    <2>3. \A q \in Resources : (Sending(q))' = Sending(q) /\ (Writing(q))' = Writing(q)
      BY <1>2 DEF Sending, Writing
    <2> QED BY <1>2, <2>1, <2>2, <2>3 DEF IteratorAt, Target
  <1>15. SubscriberAt' /\ CountAt'
    BY <1>2 DEF SubscriberAt, CountAt, Receiving
  <1> QED BY <1>11, <1>12, <1>13, <1>14, <1>15

LEMMA BeginInv ==
  ASSUME ThreadInv,
         \/ \E p \in Publishers, v \in Values : Publish(p, v)
         \/ \E s \in Subscribers : ExternalEvent(s)
  PROVE  ThreadInv'
  <1> USE LayerAssumption DEF ThreadInv, groupVars, dataVars, Layers
  <1>1. ASSUME NEW p \in Publishers, NEW v \in Values, Publish(p, v) PROVE ThreadInv'
    <2>1. joined[p] = IDOf[p]
      BY <1>1 DEF Publish, ThreadInv, JoinedOwn
    <2>2. TypeOK'
      BY <1>1 DEF Publish, TypeOK
    <2>3. GroupsAgree' /\ JoinedOwn'
      BY <1>1, GroupsKept DEF Publish
    <2>4. PublisherAt' /\ SubscriberAt'
      BY <1>1, <2>1 DEF Publish, TypeOK, PublisherAt, SubscriberAt, Sending, Writing, Receiving
    <2>5. IteratorAt' /\ CountAt'
      BY <1>1 DEF Publish, TypeOK, IteratorAt, CountAt, Sending, Writing, Target
    <2> QED BY <2>2, <2>3, <2>4, <2>5
  <1>2. ASSUME NEW s \in Subscribers, ExternalEvent(s) PROVE ThreadInv'
    <2> DEFINE r == ResOf[s]
    <2>1. r \in Resources /\ pc[r] = "idle" /\ count[s] \in 0 .. QueueSize
      BY <1>2 DEF ExternalEvent, TypeOK
    <2>2. /\ pending[s] > 0 /\ pending' = [pending EXCEPT ![s] = @ - 1]
          /\ fb' = [fb EXCEPT ![r] = s] /\ done' = [done EXCEPT ![r] = count[s]]
          /\ pc' = [pc EXCEPT ![r] = "receive"]
          /\ UNCHANGED <<groupVars, lock, at, dataVars, count>>
      BY <1>2 DEF ExternalEvent
    <2> HIDE DEF r
    <2>3. TypeOK'
      <3>1. pending' \in [Subscribers -> 0 .. ListSize]
        BY <2>2 DEF TypeOK
      <3>2. done' \in [Resources -> Int] /\ fb' \in [Resources -> Layers \cup {NoID}]
        BY <2>1, <2>2 DEF TypeOK
      <3> QED BY <2>1, <2>2, <3>1, <3>2 DEF TypeOK
    <2>4. GroupsAgree' /\ JoinedOwn'
      BY <2>2, GroupsKept
    <2>5. PublisherAt' /\ SubscriberAt'
      BY <2>1, <2>2 DEF TypeOK, PublisherAt, SubscriberAt, Sending, Writing, Receiving, r
    <2>6. IteratorAt' /\ CountAt'
      BY <2>1, <2>2 DEF TypeOK, IteratorAt, CountAt, Sending, Writing, Target
    <2> QED BY <2>3, <2>4, <2>5, <2>6
  <1> QED BY <1>1, <1>2

\* Every thread, block and iterator is where ThreadInv has it.
THEOREM ThreadsPlaced == Spec => []ThreadInv
  <1>1. ThreadInv /\ [Next]_vars => ThreadInv'
    <2> SUFFICES ASSUME ThreadInv, [Next]_vars PROVE ThreadInv'
      OBVIOUS
    <2>1. CASE UNCHANGED vars
      BY <2>1 DEF vars, groupVars, threadVars, dataVars, ThreadInv, TypeOK, JoinedOwn,
                  GroupsAgree, ListAgrees, PublisherAt, SubscriberAt, IteratorAt, CountAt,
                  Sending, Writing, Receiving, Target
    <2> QED BY <2>1, StepInv, OpenInv, CloseInv, BeginInv DEF Next
  <1> QED BY InitInv, <1>1, PTL DEF Spec

\* TypeOK: the variables keep their types, the counts their limits.
THEOREM TypeCorrect == Spec => []TypeOK
  <1>1. ThreadInv => TypeOK
    BY DEF ThreadInv
  <1> QED BY <1>1, ThreadsPlaced, PTL

\* GroupsAgree: lists, groups and the layers' pointers (register, unregister).
THEOREM GroupsAgreeAlways == Spec => []GroupsAgree
  <1>1. ThreadInv => GroupsAgree
    BY DEF ThreadInv
  <1> QED BY <1>1, ThreadsPlaced, PTL

-----------------------------------------------------------------------------
(* Locks *)

TargetHeld ==
  \A q \in Resources : Writing(q) /\ at[q] \in Subscribers => lock[Target(q)] = q

LockInv == LocksAreHeld /\ TargetHeld

LEMMA LockStep ==
  ASSUME ThreadInv, LockInv, NEW r \in Resources, Step(r)
  PROVE  LockInv'
  <1> USE LayerAssumption DEF LockInv, LocksAreHeld, TargetHeld, Sending, Writing, Target, Idle
  <1>1. TypeOK /\ TypeOK'
    BY StepInv DEF ThreadInv
  <1>2. CASE LockOwn(r)
    <2>1. /\ lock[r] = NoOwner /\ lock' = [lock EXCEPT ![r] = r] /\ ~Writing(r)
          /\ pc' = [pc EXCEPT ![r] = "walk"] /\ \A q \in Resources \ {r} : at'[q] = at[q]
      BY <1>1, <1>2 DEF LockOwn, TypeOK
    <2>2. \A q \in Resources : at[q] \in Subscribers => Target(q) \in Resources
      BY DEF Layers
    <2>3. LocksAreHeld'
      BY <1>1, <2>1 DEF TypeOK
    <2>4. TargetHeld'
      BY <1>1, <2>1, <2>2 DEF TypeOK
    <2> QED BY <2>3, <2>4
  <1>3. CASE Visit(r)
    BY <1>1, <1>3 DEF Visit, TypeOK, ThreadInv, IteratorAt, NeedsTargetLock
  <1>4. CASE LockTarget(r)
    BY <1>1, <1>4 DEF LockTarget, TypeOK, ThreadInv, IteratorAt
  <1>5. CASE SetRD(r)
    BY <1>1, <1>5 DEF SetRD, TypeOK, ThreadInv, IteratorAt
  <1>6. CASE InterruptCommFB(r)
    BY <1>1, <1>6 DEF InterruptCommFB, TypeOK, ThreadInv, IteratorAt
  <1>7. CASE StartNewEventChain(r)
    BY <1>1, <1>7 DEF StartNewEventChain, TypeOK, ThreadInv, IteratorAt
  <1>8. CASE UnlockTarget(r)
    <2>1. at[r] \in Subscribers /\ lock[Target(r)] = r /\ lock[r] = r
      BY <1>1, <1>8 DEF UnlockTarget, ThreadInv, TypeOK, IteratorAt
    <2>2. \A x \in Resources : lock'[x] = IF x # r /\ x = Target(r) THEN NoOwner ELSE lock[x]
      BY <1>1, <1>8 DEF UnlockTarget, NeedsTargetLock, TypeOK
    <2>3. pc' = [pc EXCEPT ![r] = "walk"] /\ \A q \in Resources \ {r} : at'[q] = at[q]
      BY <1>1, <1>8 DEF UnlockTarget, TypeOK
    <2>4. LocksAreHeld'
      BY SMTT(40), <1>1, <2>1, <2>2, <2>3 DEF TypeOK
    <2>5. TargetHeld'
      <3> SUFFICES ASSUME NEW q \in Resources, q # r, Writing(q), at[q] \in Subscribers
                   PROVE  lock'[Target(q)] = q
        BY <1>1, <2>3 DEF TypeOK
      <3>1. Target(q) \in Resources /\ lock[Target(q)] = q
        BY DEF Layers
      <3> QED BY <2>1, <2>2, <3>1
    <2> QED BY <2>4, <2>5
  <1>9. CASE SendDone(r)
    BY <1>1, <1>9 DEF SendDone, TypeOK, ThreadInv, IteratorAt
  <1>10. CASE ReadCount(r)
    BY <1>1, <1>10 DEF ReadCount, TypeOK, ThreadInv, IteratorAt
  <1>11. CASE WriteCount(r)
    BY SMTT(30), <1>1, <1>11 DEF WriteCount, TypeOK, ThreadInv, IteratorAt
  <1>12. CASE Indicate(r)
    BY <1>1, <1>12 DEF Indicate, TypeOK, ThreadInv, IteratorAt
  <1> QED BY <1>2, <1>3, <1>4, <1>5, <1>6, <1>7, <1>8, <1>9, <1>10, <1>11, <1>12 DEF Step, SendStep, ReceiveStep

LEMMA LockInductive == ThreadInv /\ LockInv /\ [Next]_vars => LockInv'
  <1> SUFFICES ASSUME ThreadInv, LockInv, [Next]_vars PROVE LockInv'
    OBVIOUS
  <1> USE DEF LockInv, LocksAreHeld, TargetHeld, Sending, Writing, Target
  <1>1. ASSUME NEW f \in Layers, OpenConnection(f) PROVE LockInv'
    BY <1>1 DEF OpenConnection, threadVars
  <1>2. ASSUME NEW f \in Layers, CloseConnection(f) PROVE LockInv'
    <2>1. at' = [r \in Resources |-> IF at[r] = f THEN Freed ELSE at[r]]
      BY <1>2 DEF CloseConnection
    <2>2. UNCHANGED <<lock, pc>>
      BY <1>2 DEF CloseConnection
    <2> QED BY <2>1, <2>2, LayerAssumption
  <1>3. ASSUME NEW p \in Publishers, NEW v \in Values, Publish(p, v) PROVE LockInv'
    BY <1>3 DEF Publish, ThreadInv, TypeOK
  <1>4. ASSUME NEW s \in Subscribers, ExternalEvent(s) PROVE LockInv'
    BY <1>4 DEF ExternalEvent, ThreadInv, TypeOK
  <1>5. CASE UNCHANGED vars
    BY <1>5 DEF vars, threadVars
  <1> QED BY <1>1, <1>2, <1>3, <1>4, <1>5, LockStep DEF Next

\* LocksAreHeld: who holds a resource's data lock in sendData and setRDs.
THEOREM LocksHeld == Spec => [](ThreadInv /\ LockInv)
  <1>1. Init => LockInv
    BY LayerAssumption DEF Init, LockInv, LocksAreHeld, TargetHeld, Sending, Writing
  <1>2. ThreadInv /\ LockInv /\ [Next]_vars => LockInv'
    BY LockInductive
  <1> QED BY <1>1, <1>2, ThreadsPlaced, PTL DEF Spec

THEOREM LocksAreHeldAlways == Spec => []LocksAreHeld
  <1>1. LockInv => LocksAreHeld
    BY DEF LockInv
  <1> QED BY <1>1, LocksHeld, PTL

\* WaitsUpwards: the order the application observes excludes a deadlock.
THEOREM NobodyWaitsInACircle == Spec => []WaitsUpwards
  <1>1. ThreadInv /\ LockInv => WaitsUpwards
    <2> SUFFICES ASSUME ThreadInv, LockInv, NEW r \in Resources,
                        NEW q, q = WaitsFor(r), q # NoOwner
                 PROVE  q # r /\ (WaitsFor(q) = NoOwner \/ Rank[r] < Rank[q])
      BY DEF WaitsUpwards
    <2>1. TypeOK /\ LocksAreHeld
      BY DEF ThreadInv, LockInv
    <2>2. CASE pc[r] = "target" /\ at[r] \in Subscribers
      <3>1. q = lock[Target(r)] /\ Target(r) \in Resources /\ Target(r) # r /\ q \in Resources
        BY <2>1, <2>2, LayerAssumption
           DEF WaitsFor, ThreadInv, TypeOK, IteratorAt, Target, Layers
      <3>2. q # r
        BY <2>1, <2>2, <3>1 DEF LocksAreHeld, Writing
      <3>3. CASE q = Target(r)
        <4>1. fb[r] \in Publishers /\ ResOf[fb[r]] = r /\ SharedID(fb[r], at[r])
          BY <2>2, LayerAssumption DEF ThreadInv, PublisherAt, IteratorAt, Sending, JoinedOwn,
                          SharedID, Layers, IDs
        <4> QED BY <2>2, <3>1, <3>2, <3>3, <4>1, RankAssumption DEF Target
      <3>4. CASE q # Target(r)
        <4>1. Writing(q)
          BY <2>1, <3>1, <3>4 DEF LocksAreHeld
        <4> QED BY <3>2, <4>1 DEF WaitsFor, Writing
      <3> QED BY <3>3, <3>4
    <2>3. CASE pc[r] \in {"own", "indicate"}
      <3>1. q = lock[r] /\ q \in Resources
        BY <2>1, <2>3 DEF WaitsFor, TypeOK
      <3>2. q # r /\ Writing(q)
        BY <2>1, <2>3, <3>1 DEF LocksAreHeld, Sending, Writing
      <3> QED BY <3>2 DEF WaitsFor, Writing
    <2> QED BY <2>2, <2>3 DEF WaitsFor
  <1> QED BY <1>1, LocksHeld, PTL

-----------------------------------------------------------------------------
(* Data: only a thread between two writes leaves a subscriber with parts of *)
(* two publications, and it then holds the lock an indication needs.        *)

Whole(data) == \A i, j \in 1 .. NumRDs : data[i] = data[j]

DataInv ==
  /\ \A s \in Subscribers : Whole(RDs[s]) \/ \E r \in Resources : pc[r] = "set" /\ at[r] = s
  /\ \A r \in Resources :
       /\ pc[r] = "target" => done[r] = 0
       /\ pc[r] = "set" => /\ done[r] \in 0 .. NumRDs - 1
                          /\ \A i \in 1 .. done[r] : RDs[at[r]][i] = SDs[fb[r]]

WholeInv == NoDeadSubscriber /\ DataInv /\ IndicatedWhole

LEMMA SetStep ==
  ASSUME ThreadInv, LockInv, WholeInv, NEW r \in Resources, SetRD(r)
  PROVE  WholeInv'
  <1> DEFINE s == at[r]
             v == SDs[fb[r]]
             k == done[r] + 1
  <1>1. TypeOK /\ s \in Subscribers /\ pc[r] = "set" /\ lock[Target(r)] = r
    BY DEF SetRD, ThreadInv, TypeOK, IteratorAt, LockInv, TargetHeld, Writing
  <1>2. /\ k \in 1 .. NumRDs /\ done' = [done EXCEPT ![r] = k]
        /\ pc' = [pc EXCEPT ![r] = IF k = NumRDs THEN "interrupt" ELSE "set"]
        /\ UNCHANGED <<fb, at, SDs, indicated>>
    BY <1>1, LayerAssumption DEF SetRD, WholeInv, DataInv, TypeOK
  <1>3. /\ \A x \in Subscribers \ {s} : RDs'[x] = RDs[x]
        /\ \A i \in 1 .. NumRDs : RDs'[s][i] = IF i = k THEN v ELSE RDs[s][i]
    <2>1. RDs' = [RDs EXCEPT ![s] = [RDs[s] EXCEPT ![k] = v]]
      BY DEF SetRD
    <2>2. RDs \in [Subscribers -> [1 .. NumRDs -> Values]]
      BY <1>1 DEF TypeOK
    <2> HIDE DEF s, k, v
    <2>3. RDs[s] \in [1 .. NumRDs -> Values] /\ RDs'[s] = [RDs[s] EXCEPT ![k] = v]
      BY <1>1, <2>1, <2>2
    <2>4. \A i \in 1 .. NumRDs : RDs'[s][i] = IF i = k THEN v ELSE RDs[s][i]
      BY <1>2, <2>3
    <2>5. \A x \in Subscribers \ {s} : RDs'[x] = RDs[x]
      BY <2>1, <2>2
    <2> QED BY <2>4, <2>5
  <1>4. \A i \in 1 .. k - 1 : RDs[s][i] = v
    BY <1>1, <1>2 DEF WholeInv, DataInv, TypeOK
  <1>5. \A q \in Resources \ {r} : pc[q] = "set" => at[q] # s
    BY <1>1, LayerAssumption DEF LockInv, TargetHeld, Writing, Target
  <1> HIDE DEF s, v, k
  <1>6. \A i \in 1 .. k : RDs'[s][i] = v
    BY <1>2, <1>3, <1>4, LayerAssumption
  <1>7. ASSUME NEW x \in Subscribers
        PROVE  Whole(RDs'[x]) \/ \E q \in Resources : pc'[q] = "set" /\ at'[q] = x
    <2>1. CASE x = s /\ k = NumRDs
      BY <1>6, <2>1 DEF Whole
    <2>2. CASE x = s /\ k # NumRDs
      BY <1>1, <1>2, <2>2 DEF s, TypeOK
    <2>3. CASE x # s
      <3>1. RDs'[x] = RDs[x]
        BY <1>3, <2>3
      <3>2. ASSUME NEW q \in Resources, pc[q] = "set", at[q] = x PROVE pc'[q] = "set" /\ at'[q] = x
        BY <1>1, <1>2, <2>3, <3>2 DEF s, TypeOK
      <3> QED BY <3>1, <3>2 DEF WholeInv, DataInv
    <2> QED BY <2>1, <2>2, <2>3
  <1>8. ASSUME NEW q \in Resources
        PROVE  /\ pc'[q] = "target" => done'[q] = 0
               /\ pc'[q] = "set" =>
                    /\ done'[q] \in 0 .. NumRDs - 1
                    /\ \A i \in 1 .. done'[q] : RDs'[at'[q]][i] = SDs'[fb'[q]]
    <2>1. CASE q = r
      BY <1>1, <1>2, <1>6, <2>1, LayerAssumption DEF s, v, TypeOK
    <2>2. CASE q # r
      <3>1. pc'[q] = pc[q] /\ done'[q] = done[q]
        BY <1>1, <1>2, <2>2 DEF TypeOK
      <3>2. pc[q] = "set" => RDs'[at[q]] = RDs[at[q]]
        BY <1>3, <1>5, <2>2 DEF WholeInv, NoDeadSubscriber, ThreadInv, TypeOK, IteratorAt,
                                Writing
      <3> QED BY <1>2, <3>1, <3>2 DEF WholeInv, DataInv
    <2> QED BY <2>1, <2>2
  <1> QED BY <1>2, <1>7, <1>8 DEF WholeInv, DataInv, NoDeadSubscriber, IndicatedWhole, Whole

LEMMA WholeStep ==
  ASSUME ThreadInv, LockInv, WholeInv, NEW r \in Resources, Step(r), ~SetRD(r)
  PROVE  WholeInv'
  <1> USE DEF ThreadInv, WholeInv, Idle
  <1>1. TypeOK /\ RDs' = RDs
    BY DEF Step, SendStep, ReceiveStep, LockOwn, Visit, LockTarget, InterruptCommFB,
           StartNewEventChain, UnlockTarget, SendDone, ReadCount, WriteCount, Indicate, dataVars
  <1>2. /\ pc[r] # "set" /\ (pc'[r] = "set" => done'[r] = 0) /\ (pc'[r] = "target" => done'[r] = 0)
        /\ \A q \in Resources \ {r} : /\ pc'[q] = pc[q] /\ done'[q] = done[q]
                                     /\ at'[q] = at[q] /\ fb'[q] = fb[q]
    <2>1. CASE LockOwn(r) \/ Visit(r) \/ LockTarget(r) \/ InterruptCommFB(r)
               \/ StartNewEventChain(r) \/ UnlockTarget(r)
      BY <1>1, <2>1 DEF LockOwn, Visit, LockTarget, InterruptCommFB, StartNewEventChain,
                        UnlockTarget, TypeOK, DataInv
    <2>2. CASE SendDone(r) \/ ReadCount(r) \/ WriteCount(r) \/ Indicate(r)
      BY <1>1, <2>2 DEF SendDone, ReadCount, WriteCount, Indicate, TypeOK
    <2> QED BY <2>1, <2>2 DEF Step, SendStep, ReceiveStep
  <1>3. NoDeadSubscriber'
    <2>1. CASE LockOwn(r)
      <3>1. joined[fb[r]] \in IDs
        BY <2>1, LayerAssumption DEF LockOwn, PublisherAt, IDs, Layers
      <3> QED BY <1>1, <2>1, <3>1, NextSubscriber, LayerAssumption
                 DEF LockOwn, NoDeadSubscriber, TypeOK
    <2>2. CASE UnlockTarget(r)
      <3>1. joined[fb[r]] \in IDs /\ at[r] \in Subscribers /\ joined[at[r]] = joined[fb[r]]
        <4>1. at[r] \in Subscribers
          BY <1>1, <2>2 DEF UnlockTarget, IteratorAt, Writing, TypeOK
        <4>2. joined[fb[r]] = IDOf[fb[r]] /\ fb[r] \in Publishers
          BY <2>2 DEF UnlockTarget, PublisherAt, Sending, Writing
        <4>3. joined[at[r]] = IDOf[fb[r]]
          BY <4>1 DEF IteratorAt
        <4> QED BY <4>1, <4>2, <4>3 DEF IDs, Layers
      <3>2. Successor(sublList[joined[fb[r]]], at[r]) # Freed
        BY <3>1, NextSubscriber, LayerAssumption
      <3> QED BY <1>1, <2>2, <3>2 DEF UnlockTarget, NoDeadSubscriber, TypeOK
    <2>3. CASE ~LockOwn(r) /\ ~UnlockTarget(r)
      <3>1. at' = at
        BY <2>3 DEF Step, SendStep, ReceiveStep, Visit, LockTarget, InterruptCommFB, SetRD,
                    StartNewEventChain, SendDone, ReadCount, WriteCount, Indicate
      <3> QED BY <3>1 DEF NoDeadSubscriber
    <2> QED BY <2>1, <2>2, <2>3
  <1>4. DataInv'
    <2>1. ASSUME NEW q \in Resources, q # r, pc[q] = "set" PROVE SDs'[fb[q]] = SDs[fb[q]]
      <3>1. CASE SendDone(r)
        <4>1. fb[q] \in Publishers /\ fb[q] # fb[r]
          BY <2>1, <3>1 DEF SendDone, PublisherAt, Sending, Writing
        <4> QED BY <1>1, <3>1, <4>1 DEF SendDone, TypeOK
      <3>2. CASE ~SendDone(r)
        BY <3>2 DEF Step, SendStep, ReceiveStep, LockOwn, Visit, LockTarget, InterruptCommFB,
             StartNewEventChain, UnlockTarget, ReadCount, WriteCount, Indicate, dataVars
      <3> QED BY <3>1, <3>2
    <2>2. ASSUME NEW s \in Subscribers
          PROVE  Whole(RDs'[s]) \/ \E q \in Resources : pc'[q] = "set" /\ at'[q] = s
      BY <1>1, <1>2 DEF DataInv
    <2>3. ASSUME NEW q \in Resources
          PROVE  /\ pc'[q] = "target" => done'[q] = 0
                 /\ pc'[q] = "set" =>
                      /\ done'[q] \in 0 .. NumRDs - 1
                      /\ \A i \in 1 .. done'[q] : RDs'[at'[q]][i] = SDs'[fb'[q]]
      <3>1. CASE q = r
        BY <1>2, <3>1, LayerAssumption
      <3>2. CASE q # r
        BY <1>1, <1>2, <2>1, <3>2 DEF DataInv
      <3> QED BY <3>1, <3>2
    <2> QED BY <2>2, <2>3 DEF DataInv
  <1>5. IndicatedWhole'
    <2>1. CASE Indicate(r)
      <3>1. fb[r] \in Subscribers /\ ResOf[fb[r]] = r /\ lock[r] = NoOwner
        BY <2>1 DEF Indicate, SubscriberAt, Receiving
      <3>2. Whole(RDs[fb[r]])
        BY <3>1, LayerAssumption DEF DataInv, LockInv, TargetHeld, Writing, Target
      <3> QED BY <1>1, <2>1, <3>1, <3>2 DEF Indicate, IndicatedWhole, Whole, TypeOK
    <2>2. CASE ~Indicate(r)
      <3>1. indicated' = indicated
        BY <2>2 DEF Step, SendStep, ReceiveStep, LockOwn, Visit, LockTarget, InterruptCommFB,
             StartNewEventChain, UnlockTarget, ReadCount, WriteCount, SendDone, dataVars
      <3> QED BY <3>1 DEF IndicatedWhole
    <2> QED BY <2>1, <2>2
  <1> QED BY <1>3, <1>4, <1>5

\* No iterator stands on a layer that is closed as it should be.
LEMMA LeavesUnwatched ==
  ASSUME "leave" \notin Rough, ThreadInv, NoDeadSubscriber, NEW f \in Layers, CloseConnection(f),
         NEW r \in Resources
  PROVE  at[r] # f
  <1> SUFFICES ASSUME at[r] = f PROVE FALSE
    OBVIOUS
  <1>1. CASE f \in Publishers
    BY <1>1, LayerAssumption DEF ThreadInv, TypeOK, NoDeadSubscriber
  <1>2. CASE f \in Subscribers
    <2>1. Walks(r) /\ ~SharedID(fb[r], f)
      BY <1>2, LayerAssumption
         DEF CloseConnection, MayClose, ThreadInv, IteratorAt, Sending, Writing, Walks
    <2>2. joined[f] = IDOf[fb[r]] /\ joined[f] # NoID
      BY <1>2 DEF CloseConnection, ThreadInv, IteratorAt
    <2> QED BY <2>1, <2>2 DEF SharedID, ThreadInv, JoinedOwn
  <1> QED BY <1>1, <1>2 DEF Layers

\* WholeInv: setRDs never works on a subscriber that has left, and what is
\* written in part is locked.
THEOREM SubscribersStay == ASSUME "leave" \notin Rough PROVE Spec => []WholeInv
  <1>1. Init => WholeInv
    BY LayerAssumption
       DEF Init, WholeInv, NoDeadSubscriber, DataInv, IndicatedWhole, Whole
  <1>2. ThreadInv /\ LockInv /\ WholeInv /\ [Next]_vars => WholeInv'
    <2> SUFFICES ASSUME ThreadInv, LockInv, WholeInv, [Next]_vars PROVE WholeInv'
      OBVIOUS
    <2> USE DEF WholeInv
    <2>1. ASSUME NEW f \in Layers, OpenConnection(f) PROVE WholeInv'
      BY <2>1 DEF OpenConnection, threadVars, dataVars, NoDeadSubscriber, DataInv,
                  IndicatedWhole, Whole
    <2>2. ASSUME NEW f \in Layers, CloseConnection(f) PROVE WholeInv'
      <3>1. \A r \in Resources : at[r] # f
        BY <2>2, LeavesUnwatched
      <3>2. at' = at /\ UNCHANGED <<pc, fb, done, dataVars>>
        BY <2>2, <3>1 DEF CloseConnection, ThreadInv, TypeOK
      <3> QED BY <3>2 DEF dataVars, NoDeadSubscriber, DataInv, IndicatedWhole, Whole
    <2>3. ASSUME NEW p \in Publishers, NEW v \in Values, Publish(p, v) PROVE WholeInv'
      <3>1. UNCHANGED <<at, RDs, indicated, done>>
        BY <2>3 DEF Publish
      <3>2. \A q \in Resources : pc'[q] \in {"target", "set"} =>
              pc'[q] = pc[q] /\ fb'[q] = fb[q] /\ fb[q] \in Publishers \ {p}
        BY <2>3, LayerAssumption
           DEF Publish, ThreadInv, TypeOK, PublisherAt, Sending, Writing, Layers
      <3>3. \A q \in Resources : pc[q] = "set" => pc'[q] = "set"
        BY <2>3 DEF Publish, ThreadInv, TypeOK
      <3>4. \A x \in Publishers \ {p} : SDs'[x] = SDs[x]
        BY <2>3 DEF Publish, ThreadInv, TypeOK
      <3> QED BY <3>1, <3>2, <3>3, <3>4 DEF NoDeadSubscriber, DataInv, IndicatedWhole, Whole
    <2>4. ASSUME NEW s \in Subscribers, ExternalEvent(s) PROVE WholeInv'
      <3>1. UNCHANGED <<at, dataVars>>
        BY <2>4 DEF ExternalEvent
      <3>2. \A q \in Resources :
              /\ pc[q] = "set" => pc'[q] = "set"
              /\ pc'[q] \in {"target", "set"} => pc'[q] = pc[q] /\ fb'[q] = fb[q] /\ done'[q] = done[q]
        BY <2>4 DEF ExternalEvent, ThreadInv, TypeOK
      <3> QED BY <3>1, <3>2 DEF dataVars, NoDeadSubscriber, DataInv, IndicatedWhole, Whole
    <2>5. CASE UNCHANGED vars
      BY <2>5 DEF vars, threadVars, dataVars, NoDeadSubscriber, DataInv, IndicatedWhole, Whole
    <2> QED BY <2>1, <2>2, <2>3, <2>4, <2>5, SetStep, WholeStep DEF Next
  <1> QED BY <1>1, <1>2, LocksHeld, PTL DEF Spec

\* IndicatedWhole: sendOutputEvent copies the data of one publication, if the
\* subscribers are not closed while data is sent to their group.
THEOREM IndicationsAreWhole == ASSUME "leave" \notin Rough PROVE Spec => []IndicatedWhole
  <1>1. WholeInv => IndicatedWhole
    BY DEF WholeInv
  <1> QED BY <1>1, SubscribersStay, PTL

-----------------------------------------------------------------------------
(* Interrupts: what is counted after the receiver's thread took its copy of *)
(* the count was counted by a publisher that goes on to queue an event, and *)
(* only that thread takes events.                                           *)

Announced(s) ==
  pending[s] > 0 \/ \E r \in Resources : pc[r] = "chain" /\ at[r] \in {s, Freed}

CountInv(s) ==
  /\ count[s] > 0 => Announced(s) \/ Taking(s)
  /\ Taking(s) =>
       IF pc[ResOf[s]] = "receive" THEN count[s] > done[ResOf[s]] => Announced(s)
       ELSE done[ResOf[s]] > 0 => Announced(s)

\* A step that keeps the announcement, does not raise the count and does not
\* move the receiver's thread.
LEMMA CountStays ==
  ASSUME NEW s \in Subscribers, CountInv(s), Announced(s) => Announced(s)',
         UNCHANGED <<count[s], Taking(s)>>,
         Taking(s) => UNCHANGED <<pc[ResOf[s]], done[ResOf[s]]>>
  PROVE  CountInv(s)'
  BY DEF CountInv

\* An event that is or is about to be queued will look at whatever is counted.
LEMMA AnnouncedCounts ==
  ASSUME NEW s \in Subscribers, Announced(s)'
  PROVE  CountInv(s)'
  BY DEF CountInv

\* A thread that sends is at no subscriber of its own.
LEMMA SendKeeps ==
  ASSUME ThreadInv, NEW r \in Resources, SendStep(r), NEW s \in Subscribers
  PROVE  UNCHANGED Taking(s) /\ (Taking(s) => UNCHANGED <<pc[ResOf[s]], done[ResOf[s]]>>)
  <1>1. TypeOK /\ (pc[r] = "own" \/ Sending(r)) /\ fb[r] \in Publishers
    BY DEF ThreadInv, PublisherAt, SendStep, LockOwn, Visit, LockTarget, SetRD,
           InterruptCommFB, StartNewEventChain, UnlockTarget, SendDone, Sending, Writing
  <1>2. /\ pc'[r] \notin {"receive", "subtract", "subtractNothing"}
        /\ \A q \in Resources \ {r} : /\ pc'[q] = pc[q] /\ fb'[q] = fb[q]
                                     /\ done'[q] = done[q]
    BY <1>1 DEF SendStep, LockOwn, Visit, LockTarget, SetRD, InterruptCommFB, TypeOK,
           StartNewEventChain, UnlockTarget, SendDone, Idle
  <1>3. CASE ResOf[s] = r
    BY <1>1, <1>2, <1>3 DEF Taking, Sending, Writing
  <1>4. CASE ResOf[s] # r
    <2>1. ResOf[s] \in Resources \ {r}
      BY <1>4, LayerAssumption DEF Layers
    <2> QED BY <1>2, <2>1 DEF Taking
  <1> QED BY <1>3, <1>4

\* Where a thread that sends counts an interrupt it comes to queue an event.
LEMMA SendCount ==
  ASSUME ThreadInv, NEW s \in Subscribers, CountInv(s), NEW r \in Resources, SendStep(r)
  PROVE  CountInv(s)'
  <1>1. TypeOK /\ ListSize \in Nat \ {0} /\ UNCHANGED Taking(s)
        /\ (Taking(s) => UNCHANGED <<pc[ResOf[s]], done[ResOf[s]]>>)
    BY LayerAssumption, SendKeeps DEF ThreadInv
  <1>2. CASE LockOwn(r) \/ Visit(r) \/ LockTarget(r) \/ SetRD(r) \/ UnlockTarget(r) \/ SendDone(r)
    <2>1. /\ UNCHANGED <<count, pending>> /\ pc[r] # "chain"
          /\ \A q \in Resources \ {r} : pc'[q] = pc[q] /\ at'[q] = at[q]
      BY <1>1, <1>2 DEF LockOwn, Visit, LockTarget, SetRD, UnlockTarget, SendDone, Idle, TypeOK
    <2>2. Announced(s) => Announced(s)'
      BY <2>1 DEF Announced
    <2> QED BY <1>1, <2>1, <2>2, CountStays
  <1>3. CASE InterruptCommFB(r)
    <2>1. /\ count' = [count EXCEPT ![at[r]] = Counted(@)] /\ UNCHANGED <<pending, at>>
          /\ pc' = [pc EXCEPT ![r] = "chain"] /\ pc[r] = "interrupt"
      BY <1>3 DEF InterruptCommFB
    <2>2. CASE at[r] = s
      BY <1>1, <2>1, <2>2, AnnouncedCounts DEF Announced, TypeOK
    <2>3. CASE at[r] # s
      <3>1. count'[s] = count[s]
        BY <1>1, <2>1, <2>3 DEF TypeOK
      <3>2. Announced(s) => Announced(s)'
        BY <1>1, <2>1 DEF Announced, TypeOK
      <3> QED BY <1>1, <3>1, <3>2, CountStays
    <2> QED BY <2>2, <2>3
  <1>4. CASE StartNewEventChain(r)
    <2>1. /\ pending' = [pending EXCEPT ![at[r]] = IF @ < ListSize THEN @ + 1 ELSE @]
          /\ pc' = [pc EXCEPT ![r] = "unlock"] /\ UNCHANGED <<count, at>> /\ at[r] # Freed
      BY <1>4 DEF StartNewEventChain
    <2>2. CASE at[r] = s
      <3>1. pending'[s] > 0
        BY <1>1, <2>1, <2>2 DEF TypeOK
      <3> QED BY <3>1, AnnouncedCounts DEF Announced
    <2>3. CASE at[r] # s
      <3>1. pending'[s] = pending[s]
        BY <1>1, <2>1, <2>3 DEF TypeOK
      <3>2. Announced(s) => Announced(s)'
        BY <1>1, <2>1, <2>3, <3>1 DEF Announced, TypeOK
      <3> QED BY <1>1, <2>1, <3>2, CountStays
    <2> QED BY <2>2, <2>3
  <1> QED BY <1>2, <1>3, <1>4 DEF SendStep

\* What the receiver's thread leaves of the count was counted after its copy.
LEMMA ReceiveCount ==
  ASSUME ThreadInv, NEW s \in Subscribers, CountInv(s), NEW r \in Resources, ReceiveStep(r)
  PROVE  CountInv(s)'
  <1>1. TypeOK /\ fb[r] \in Subscribers /\ ResOf[fb[r]] = r /\ ResOf[s] \in Resources
    BY LayerAssumption
    DEF ThreadInv, SubscriberAt, Receiving, ReceiveStep, ReadCount, WriteCount, Indicate, Layers
  <1>2. Announced(s)' <=> Announced(s)
    BY <1>1 DEF ReceiveStep, ReadCount, WriteCount, Indicate, Idle, TypeOK, Announced
  <1>3. CASE fb[r] = s
    <2>1. CASE ReadCount(r)
      <3>1. /\ Taking(s) /\ pc[r] = "receive" /\ UNCHANGED <<count, fb>>
            /\ done'[r] = count[s] - done[r] /\ pc'[r] \in {"subtract", "subtractNothing"}
            /\ count[s] \in Int /\ done[r] \in Int
        BY <1>1, <1>3, <2>1 DEF ReadCount, TypeOK, Taking
      <3> QED BY <1>1, <1>2, <1>3, <3>1 DEF CountInv, Taking
    <2>2. CASE WriteCount(r)
      <3>1. /\ Taking(s) /\ pc[r] \in {"subtract", "subtractNothing"} /\ count'[s] = done[r]
            /\ pc'[r] \in {"idle", "indicate"}
        BY <1>1, <1>3, <2>2 DEF WriteCount, Idle, TypeOK, Taking
      <3> QED BY <1>1, <1>2, <1>3, <3>1 DEF CountInv, Taking
    <2>3. CASE Indicate(r)
      <3>1. ~Taking(s) /\ ~Taking(s)' /\ UNCHANGED count
        BY <1>1, <1>3, <2>3 DEF Indicate, Idle, TypeOK, Taking
      <3> QED BY <1>2, <3>1 DEF CountInv
    <2> QED BY <2>1, <2>2, <2>3 DEF ReceiveStep
  <1>4. CASE fb[r] # s
    <2>1. count'[s] = count[s]
      BY <1>1, <1>4 DEF ReceiveStep, ReadCount, WriteCount, Indicate, TypeOK
    <2>2. /\ \A q \in Resources \ {r} : pc'[q] = pc[q] /\ fb'[q] = fb[q] /\ done'[q] = done[q]
          /\ fb'[r] \in {fb[r], NoID}
      BY <1>1 DEF ReceiveStep, ReadCount, WriteCount, Indicate, Idle, TypeOK
    <2>3. UNCHANGED Taking(s) /\ (Taking(s) => UNCHANGED <<pc[ResOf[s]], done[ResOf[s]]>>)
      <3>1. CASE ResOf[s] = r
        BY <1>1, <1>4, <2>2, <3>1, LayerAssumption DEF Taking, Layers
      <3>2. CASE ResOf[s] # r
        BY <1>1, <2>2, <3>2 DEF Taking
      <3> QED BY <3>1, <3>2
    <2> QED BY <1>2, <2>1, <2>3, CountStays
  <1> QED BY <1>3, <1>4

\* Every step keeps the invariant of each subscriber's count.
LEMMA CountStep ==
  ASSUME ThreadInv, [Next]_vars, NEW s \in Subscribers, CountInv(s)
  PROVE  CountInv(s)'
  <1>1. TypeOK /\ ResOf[s] \in Resources
    BY LayerAssumption DEF ThreadInv, Layers
  <1>2. ASSUME UNCHANGED <<pc, fb, done, count, pending>>, \A r \in Resources : at'[r] \in {at[r], Freed}
        PROVE  CountInv(s)'
    <2>1. Announced(s) => Announced(s)'
      BY <1>2 DEF Announced
    <2> QED BY <1>2, <2>1, CountStays DEF Taking
  <1>3. ASSUME NEW f \in Layers, OpenConnection(f) PROVE CountInv(s)'
    BY <1>1, <1>2, <1>3 DEF OpenConnection, threadVars, TypeOK
  <1>4. ASSUME NEW f \in Layers, CloseConnection(f) PROVE CountInv(s)'
    BY <1>1, <1>2, <1>4 DEF CloseConnection, TypeOK
  <1>5. ASSUME NEW p \in Publishers, NEW v \in Values, Publish(p, v) PROVE CountInv(s)'
    <2> DEFINE r == ResOf[p]
    <2>1. /\ pc[r] = "idle" /\ fb' = [fb EXCEPT ![r] = p] /\ pc' = [pc EXCEPT ![r] = "own"]
          /\ UNCHANGED <<at, done, count, pending>>
      BY <1>5 DEF Publish
    <2>2. Announced(s) => Announced(s)'
      BY <1>1, <2>1 DEF Announced, TypeOK
    <2>3. UNCHANGED Taking(s) /\ (Taking(s) => UNCHANGED pc[ResOf[s]])
      BY <1>1, <2>1, LayerAssumption DEF Taking, TypeOK, Layers
    <2> QED BY <2>1, <2>2, <2>3, CountStays
  <1>6. ASSUME NEW t \in Subscribers, ExternalEvent(t) PROVE CountInv(s)'
    <2> DEFINE r == ResOf[t]
    <2>1. /\ pc[r] = "idle" /\ fb' = [fb EXCEPT ![r] = t] /\ pc' = [pc EXCEPT ![r] = "receive"]
          /\ done' = [done EXCEPT ![r] = count[t]] /\ UNCHANGED <<at, count>>
          /\ pending' = [pending EXCEPT ![t] = @ - 1] /\ r \in Resources
      BY <1>6, LayerAssumption DEF ExternalEvent, Layers
    <2>2. CASE s = t
      <3>1. Taking(s)' /\ pc'[r] = "receive" /\ count'[s] = count[s] /\ done'[r] = count[s]
            /\ count[s] \in Int
        BY <1>1, <2>1, <2>2 DEF TypeOK, Taking
      <3> QED BY <2>2, <3>1 DEF CountInv
    <2>3. CASE s # t
      <3>1. Announced(s) => Announced(s)'
        BY <1>1, <2>1, <2>3 DEF Announced, TypeOK
      <3>2. UNCHANGED Taking(s) /\ (Taking(s) => UNCHANGED <<pc[ResOf[s]], done[ResOf[s]]>>)
        BY <1>1, <2>1, <2>3 DEF Taking, TypeOK
      <3> QED BY <2>1, <3>1, <3>2, CountStays
    <2> QED BY <2>2, <2>3
  <1>7. CASE UNCHANGED vars
    BY <1>1, <1>2, <1>7 DEF vars, threadVars, TypeOK
  <1>8. ASSUME NEW r \in Resources, Step(r) PROVE CountInv(s)'
    BY <1>8, SendCount, ReceiveCount DEF Step
  <1> QED BY <1>3, <1>4, <1>5, <1>6, <1>7, <1>8 DEF Next

\* InterruptsAnnounced: interruptCommFB, startNewEventChain and receiveData leave
\* no counted interrupt without an event, whatever the application does, however
\* small the queues are and wherever increments fall into decrements.
THEOREM EveryInterruptAnnounced == Spec => []InterruptsAnnounced
  <1> DEFINE Inv == \A s \in Subscribers : CountInv(s)
  <1>1. Init => Inv
    BY LayerAssumption DEF Init, CountInv, Taking, Layers
  <1>2. ThreadInv /\ Inv /\ [Next]_vars => Inv'
    BY CountStep
  <1>3. Inv => InterruptsAnnounced
    BY DEF CountInv, Announced, InterruptsAnnounced
  <1> QED BY <1>1, <1>2, <1>3, ThreadsPlaced, PTL DEF Spec
=============================================================================
