--------------------------- MODULE EventRingProofs ---------------------------
(* What the ring operations of EventRing preserve and how they count, for  *)
(* every ring size from two slots up.                                      *)
EXTENDS EventRing, TLAPS

(* A cleared ring is a sound, empty one.                                   *)
LEMMA EmptyRingSound ==
  ASSUME NEW size \in Nat, size >= 2
  PROVE  /\ EmptyRing(size) \in Ring(size)
         /\ Contiguous(EmptyRing(size), size)
         /\ Unlocked(EmptyRing(size), size)
         /\ Accepts(EmptyRing(size))
         /\ Count(EmptyRing(size), size) = 0
  BY DEF EmptyRing, Ring, Contiguous, Unlocked, Accepts, Count, Distance, InUse

(* Every operation of the code yields a ring, whatever ring it is given.   *)
LEMMA OperationsTyped ==
  ASSUME NEW size \in Nat, size >= 2, NEW r \in Ring(size)
  PROVE  /\ \A e \in Event : Add(r, size, e) \in Ring(size)
         /\ RemoveFirst(r, size) \in Ring(size)
         /\ ClearFirst(r) \in Ring(size)
         /\ ZeroList(r, size) \in Ring(size)
         /\ ResetPointers(r, size) \in Ring(size)
         /\ r.list[r.start] \in Event \cup {NoEvent}
  <1>0. /\ r.start \in 0 .. size - 1 /\ r.end \in 0 .. size - 1
        /\ r.list \in [0 .. size - 1 -> Event \cup {NoEvent}]
    BY DEF Ring
  <1>1. \A e \in Event : Add(r, size, e) \in Ring(size)
    BY <1>0 DEF Ring, Add, NextSlot
  <1>2. RemoveFirst(r, size) \in Ring(size)
    BY <1>0 DEF Ring, RemoveFirst, NextSlot
  <1> QED
    BY <1>0, <1>1, <1>2 DEF Ring, ClearFirst, ZeroList, ResetPointers

(* Adding keeps a ring typed, contiguous and unlocked.                     *)
LEMMA AddSound ==
  ASSUME NEW size \in Nat, size >= 2,
         NEW r \in Ring(size), NEW e \in Event, Contiguous(r, size)
  PROVE  /\ Add(r, size, e) \in Ring(size)
         /\ Contiguous(Add(r, size, e), size)
         /\ Unlocked(r, size) => Unlocked(Add(r, size, e), size)
         /\ r.start # r.end => Add(r, size, e).start # Add(r, size, e).end
         /\ r.start # r.end
              => Add(r, size, e).list[r.start] = r.list[r.start]
         /\ Add(r, size, e).start = r.start
  <1> DEFINE s == Add(r, size, e)
  <1>0. /\ r.start \in 0 .. size - 1 /\ r.end \in 0 .. size - 1
        /\ r.list \in [0 .. size - 1 -> Event \cup {NoEvent}]
    BY DEF Ring
  <1>1. CASE ~Accepts(r)
    BY <1>0, <1>1 DEF Add, Contiguous, InUse
  <1>2. CASE Accepts(r)
    <2>1. /\ s.list = [r.list EXCEPT ![r.end] = e]
          /\ s.start = r.start
          /\ s.end = IF r.start # NextSlot(r.end, size)
                       THEN NextSlot(r.end, size) ELSE r.end
      BY <1>2 DEF Add
    <2>2. s \in Ring(size)
      BY <1>0, <1>2 DEF Add, Ring, NextSlot
    <2>3. Contiguous(s, size)
      <3> SUFFICES ASSUME NEW i \in 0 .. size - 1
                   PROVE /\ InUse(s, i) => s.list[i] \in Event
                         /\ ~InUse(s, i) /\ i # s.end => s.list[i] = NoEvent
        BY DEF Contiguous
      <3>1. /\ InUse(r, i) => r.list[i] \in Event
            /\ ~InUse(r, i) /\ i # r.end => r.list[i] = NoEvent
        BY DEF Contiguous
      <3>2. s.list[i] = IF i = r.end THEN e ELSE r.list[i]
        BY <2>1, <1>0
      <3>3. CASE r.start = NextSlot(r.end, size)
        <4>1. s.end = r.end /\ s.start = r.start
          BY <2>1, <3>3
        <4>2. ~InUse(r, r.end)
          BY <1>0 DEF InUse
        <4> QED
          BY <4>1, <4>2, <3>1, <3>2 DEF InUse
      <3>4. CASE r.start # NextSlot(r.end, size)
        <4>1. s.end = NextSlot(r.end, size) /\ s.start = r.start
          BY <2>1, <3>4
        <4>2. InUse(s, i) <=> InUse(r, i) \/ i = r.end
          BY <1>0, <3>4, <4>1 DEF InUse, NextSlot
        <4> QED
          BY <4>2, <3>1, <3>2
      <3> QED
        BY <3>3, <3>4
    <2>4. Unlocked(s, size)
      BY <1>0, <2>1, <1>2, NoEventAssumption
         DEF Unlocked, Contiguous, InUse, NextSlot
    <2>5. r.start # r.end => s.start # s.end /\ s.list[r.start] = r.list[r.start]
      BY <1>0, <2>1 DEF NextSlot
    <2> QED
      BY <2>1, <2>2, <2>3, <2>4, <2>5
  <1> QED
    BY <1>1, <1>2

(* An accepted event is counted.                                           *)
LEMMA AddCounts ==
  ASSUME NEW size \in Nat, size >= 2,
         NEW r \in Ring(size), NEW e \in Event, Contiguous(r, size), Accepts(r)
  PROVE  /\ Count(Add(r, size, e), size) = Count(r, size) + 1
         /\ Accepts(Add(r, size, e)) \/ Count(Add(r, size, e), size) = size
  <1> DEFINE s == Add(r, size, e)
  <1>0. /\ r.start \in 0 .. size - 1 /\ r.end \in 0 .. size - 1
        /\ r.list \in [0 .. size - 1 -> Event \cup {NoEvent}]
    BY DEF Ring
  <1>1. /\ s.list = [r.list EXCEPT ![r.end] = e]
        /\ s.start = r.start
        /\ s.end = IF r.start # NextSlot(r.end, size)
                     THEN NextSlot(r.end, size) ELSE r.end
    BY DEF Add
  <1>2. r.list[r.end] = NoEvent /\ e # NoEvent
    BY NoEventAssumption DEF Accepts
  <1>3. CASE r.start = NextSlot(r.end, size)
    <2>1. s.end = r.end /\ s.list[s.end] = e
      BY <1>0, <1>1, <1>3
    <2>2. Distance(r, size) = size - 1 /\ Distance(s, size) = size - 1
      BY <1>0, <1>1, <1>3, <2>1 DEF Distance, NextSlot
    <2> QED
      BY <1>2, <2>1, <2>2 DEF Count, Accepts
  <1>4. CASE r.start # NextSlot(r.end, size)
    <2>1. s.end = NextSlot(r.end, size) /\ s.end \in 0 .. size - 1
      BY <1>0, <1>1, <1>4 DEF NextSlot
    <2>2. s.end # r.end /\ ~InUse(r, s.end)
      BY <1>0, <2>1, <1>4 DEF InUse, NextSlot
    <2>3. s.list[s.end] = NoEvent
      BY <1>0, <1>1, <2>1, <2>2 DEF Contiguous
    <2>4. Distance(s, size) = Distance(r, size) + 1
      BY <1>0, <1>1, <2>1, <1>4 DEF Distance, NextSlot
    <2> QED
      BY <1>0, <1>2, <2>3, <2>4 DEF Count, Accepts, Distance
  <1> QED
    BY <1>3, <1>4

(* Taking the first entry of a ring whose pointers differ.                 *)
LEMMA RemoveFirstSound ==
  ASSUME NEW size \in Nat, size >= 2,
         NEW r \in Ring(size), Contiguous(r, size), r.start # r.end
  PROVE  /\ r.list[r.start] \in Event
         /\ RemoveFirst(r, size) \in Ring(size)
         /\ Contiguous(RemoveFirst(r, size), size)
         /\ RemoveFirst(r, size).end = r.end
         /\ Accepts(r) <=> Accepts(RemoveFirst(r, size))
         /\ Count(RemoveFirst(r, size), size) = Count(r, size) - 1
  <1> DEFINE s == RemoveFirst(r, size)
  <1>0. /\ r.start \in 0 .. size - 1 /\ r.end \in 0 .. size - 1
        /\ r.list \in [0 .. size - 1 -> Event \cup {NoEvent}]
    BY DEF Ring
  <1>1. /\ s.list = [r.list EXCEPT ![r.start] = NoEvent]
        /\ s.start = NextSlot(r.start, size)
        /\ s.end = r.end
    BY DEF RemoveFirst
  <1>2. s \in Ring(size)
    BY <1>0 DEF RemoveFirst, Ring, NextSlot
  <1>3. InUse(r, r.start) /\ r.list[r.start] \in Event
    BY <1>0 DEF InUse, Contiguous
  <1>4. Contiguous(s, size)
    <2> SUFFICES ASSUME NEW i \in 0 .. size - 1
                 PROVE /\ InUse(s, i) => s.list[i] \in Event
                       /\ ~InUse(s, i) /\ i # s.end => s.list[i] = NoEvent
      BY DEF Contiguous
    <2>1. /\ InUse(r, i) => r.list[i] \in Event
          /\ ~InUse(r, i) /\ i # r.end => r.list[i] = NoEvent
      BY DEF Contiguous
    <2>2. s.list[i] = IF i = r.start THEN NoEvent ELSE r.list[i]
      BY <1>0, <1>1
    <2> QED
      BY <1>0, <1>1, <2>1, <2>2 DEF InUse, NextSlot
  <1>5. s.list[s.end] = r.list[r.end]
    BY <1>0, <1>1
  <1>6. Distance(s, size) = Distance(r, size) - 1
    <2>1. CASE r.start = 0
      <3>1. s.start = size - 1 /\ s.end = r.end /\ r.end > 0
        BY <1>0, <1>1, <2>1 DEF NextSlot
      <3> QED
        BY <1>0, <2>1, <3>1 DEF Distance
    <2>2. CASE r.start # 0
      <3>1. s.start = r.start - 1 /\ s.end = r.end
        BY <1>0, <1>1, <2>2 DEF NextSlot
      <3> QED
        BY <1>0, <2>2, <3>1 DEF Distance
    <2> QED
      BY <2>1, <2>2
  <1> QED
    BY <1>0, <1>1, <1>2, <1>3, <1>4, <1>5, <1>6 DEF Count, Accepts, Distance

(* Taking the entry a full ring holds at End once the others are gone.     *)
LEMMA ClearFirstSound ==
  ASSUME NEW size \in Nat, size >= 2,
         NEW r \in Ring(size), Contiguous(r, size), r.start = r.end
  PROVE  /\ ClearFirst(r) \in Ring(size)
         /\ Contiguous(ClearFirst(r), size)
         /\ Unlocked(ClearFirst(r), size)
         /\ ClearFirst(r).start = ClearFirst(r).end
         /\ Count(ClearFirst(r), size) = 0
         /\ Count(r, size) = IF Accepts(r) THEN 0 ELSE 1
  <1> DEFINE s == ClearFirst(r)
  <1>0. /\ r.start \in 0 .. size - 1 /\ r.end \in 0 .. size - 1
        /\ r.list \in [0 .. size - 1 -> Event \cup {NoEvent}]
    BY DEF Ring
  <1>1. s = [list  |-> [r.list EXCEPT ![r.start] = NoEvent],
             start |-> r.start, end |-> r.end]
    BY DEF ClearFirst
  <1>2. s \in Ring(size)
    BY <1>0, <1>1 DEF Ring
  <1>3. \A i \in 0 .. size - 1 : s.list[i] = NoEvent
    BY <1>0, <1>1 DEF Contiguous, InUse
  <1>4. s.start = r.start /\ s.end = r.start
    BY <1>1
  <1>5. Contiguous(s, size)
    BY <1>0, <1>3, <1>4 DEF Contiguous, InUse
  <1>6. Accepts(s) /\ Distance(s, size) = 0 /\ Distance(r, size) = 0
    BY <1>0, <1>3, <1>4 DEF Accepts, Distance
  <1> QED
    BY <1>2, <1>4, <1>5, <1>6 DEF Unlocked, Count, Accepts

(* The number of events of a typed ring is a number no greater than its    *)
(* size.                                                                   *)
LEMMA CountBounds ==
  ASSUME NEW size \in Nat, size >= 2, NEW r \in Ring(size)
  PROVE  Count(r, size) \in 0 .. size
  BY DEF Ring, Count, Distance
=============================================================================
