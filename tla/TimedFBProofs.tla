---------------------------- MODULE TimedFBProofs ----------------------------
(***************************************************************************)
(* Proofs about TimedFB and the timer handler it stands on, for any number *)
(* of timed blocks, any delays and any bound on the time.                  *)
(*                                                                         *)
(* The timed list and the add list are known in the model, as in the code, *)
(* by a head and the mNext fields.  A list is therefore given here by the  *)
(* function that numbers its entries (IsList), and an operation on it is   *)
(* shown to be the putting in (Put) or the taking out (Cut) of one entry.  *)
(*                                                                         *)
(* TypeInv holds whatever the application does.  IInv relates the lists,   *)
(* the orders to remove, the events in line and the mActive flags, and     *)
(* holds if the application is considerate.  Without any one of the four   *)
(* conditions one of the properties proved here is false: TLC finds the    *)
(* counterexample on the instance of TimedFB.cfg.                          *)
(***************************************************************************)
EXTENDS TimedFB, FiniteSetTheorems, SequenceTheorems, WellFoundedInduction, TLAPS

-----------------------------------------------------------------------------
(* Paths: the walks along mNext that the while loops of timerha.cpp take.  *)

\* The order by which the steps of a walk along a list are counted.
LessThan == {ss \in Nat \X Nat : ss[1] < ss[2]}

\* The order of the natural numbers has no endless descent.
LEMMA LessThanWF == IsWellFoundedOn(LessThan, Nat)
  BY NatLessThanWellFounded, Zenon DEF OpToRel, LessThan

\* A nonempty set of natural numbers has a least element.  This is the form of induction
\* the lemmas below use: the least step at which a walk along a list would go wrong.
LEMMA LeastOf ==
  ASSUME NEW T, T \subseteq Nat, T # {}
  PROVE  \E x \in T : \A y \in T : x <= y
  <1>1. PICK x \in T : \A y \in T : <<y, x>> \notin LessThan
    BY LessThanWF, WFMin
  <1>2. ASSUME NEW y \in T PROVE x <= y
    <2>1. <<y, x>> \in Nat \X Nat /\ <<y, x>>[1] = y /\ <<y, x>>[2] = x OBVIOUS
    <2>2. ~(y < x) BY <1>1, <2>1 DEF LessThan
    <2> QED BY <2>1, <2>2
  <1> QED BY <1>2

\* p is the walk from head along next that Path chooses.
IsPath(p, head, next) ==
  p = [n \in 0 .. Cardinality(FB) |->
         IF n = 0 THEN head ELSE IF p[n - 1] = NoFB THEN NoFB ELSE next[p[n - 1]]]

\* If there is such a walk, Path is one.
LEMMA PathChosen ==
  ASSUME NEW head, NEW next, NEW q, IsPath(q, head, next)
  PROVE  IsPath(Path(head, next), head, next)
  BY DEF Path, IsPath

\* There are finitely many timed blocks.
LEMMA CardinalityFB == Cardinality(FB) \in Nat /\ IsFiniteSet(FB)
  BY TimerAssumption, FS_CardinalityType

\* p is the walk from head along next, as far as step k.
PathTo(p, k, head, next) ==
  p = [n \in 0 .. k |->
         IF n = 0 THEN head ELSE IF p[n - 1] = NoFB THEN NoFB ELSE next[p[n - 1]]]

\* A walk along the mNext fields can be taken any number of steps.
LEMMA PathExists ==
  ASSUME NEW head, NEW next
  PROVE  \A k \in Nat : \E p : PathTo(p, k, head, next)
  <1> DEFINE T == {k \in Nat : ~ \E p : PathTo(p, k, head, next)}
  <1> SUFFICES ASSUME T # {} PROVE FALSE OBVIOUS
  <1>1. PICK k \in T : \A j \in T : k <= j BY LeastOf
  <1>2. CASE k = 0
    <2> DEFINE p == [n \in 0 .. 0 |-> head]
    <2>1. PathTo(p, 0, head, next) BY DEF PathTo
    <2> QED BY <1>1, <1>2, <2>1
  <1>3. CASE k # 0
    <2>1. k - 1 \in Nat /\ k \in Nat /\ ~(k <= k - 1) BY <1>1, <1>3
    <2>2. PICK p : PathTo(p, k - 1, head, next) BY <1>1, <2>1
    <2> DEFINE q == [n \in 0 .. k |->
                       IF n < k THEN p[n]
                       ELSE IF p[k - 1] = NoFB THEN NoFB ELSE next[p[k - 1]]]
    <2>3. ASSUME NEW n \in 0 .. k
          PROVE  q[n] = IF n = 0 THEN head ELSE IF q[n - 1] = NoFB THEN NoFB ELSE next[q[n - 1]]
      <3>1. CASE n = 0 BY <2>1, <2>2, <3>1, <1>3 DEF PathTo
      <3>2. CASE n # 0 /\ n < k
        <4>1. n - 1 \in 0 .. k /\ n - 1 < k /\ n \in 0 .. k - 1 BY <2>1, <3>2
        <4>2. q[n] = p[n] /\ q[n - 1] = p[n - 1] BY <3>2, <4>1
        <4> HIDE DEF q
        <4> QED BY <2>2, <3>2, <4>1, <4>2 DEF PathTo
      <3>3. CASE n # 0 /\ n = k
        <4>1. n - 1 \in 0 .. k /\ n - 1 < k BY <2>1, <3>3
        <4>2. q[n - 1] = p[k - 1] BY <3>3, <4>1
        <4>3. q[n] = IF p[k - 1] = NoFB THEN NoFB ELSE next[p[k - 1]] BY <2>1, <3>3
        <4> HIDE DEF q
        <4> QED BY <3>3, <4>2, <4>3
      <3> QED BY <2>1, <3>1, <3>2, <3>3
    <2>4. q = [n \in 0 .. k |-> q[n]] OBVIOUS
    <2> HIDE DEF q
    <2>5. PathTo(q, k, head, next) BY <2>3, <2>4 DEF PathTo
    <2> QED BY <1>1, <2>5
  <1> QED BY <1>2, <1>3

\* A path is known by where it starts and how it goes on.
LEMMA PathIs ==
  ASSUME NEW head, NEW next
  PROVE  /\ DOMAIN Path(head, next) = 0 .. Cardinality(FB)
         /\ Path(head, next)[0] = head
         /\ \A n \in 1 .. Cardinality(FB) :
              Path(head, next)[n] = IF Path(head, next)[n - 1] = NoFB THEN NoFB
                                    ELSE next[Path(head, next)[n - 1]]
  <1>1. PICK q : IsPath(q, head, next)
    <2>1. \E q : PathTo(q, Cardinality(FB), head, next) BY PathExists, CardinalityFB
    <2>2. \A q : PathTo(q, Cardinality(FB), head, next) => IsPath(q, head, next)
      BY DEF IsPath, PathTo
    <2> QED BY <2>1, <2>2
  <1> DEFINE p == Path(head, next)
  <1>2. IsPath(p, head, next) BY <1>1, PathChosen
  <1> HIDE DEF p
  <1>3. DOMAIN p = 0 .. Cardinality(FB) /\ 0 \in 0 .. Cardinality(FB)
    BY <1>2, CardinalityFB DEF IsPath
  <1>4. p[0] = head BY <1>2, <1>3 DEF IsPath
  <1>5. ASSUME NEW n \in 1 .. Cardinality(FB)
        PROVE  p[n] = IF p[n - 1] = NoFB THEN NoFB ELSE next[p[n - 1]]
    <2>1. n \in 0 .. Cardinality(FB) /\ n # 0 BY CardinalityFB
    <2> QED BY <1>2, <2>1 DEF IsPath
  <1> QED BY <1>3, <1>4, <1>5 DEF p

\* What a path meets has the type of what it starts with and goes on to.
LEMMA PathTyped ==
  ASSUME NEW head \in FB \cup {NoFB}, NEW next \in [FB -> FB \cup {NoFB}]
  PROVE  \A n \in 0 .. Cardinality(FB) : Path(head, next)[n] \in FB \cup {NoFB}
  <1> DEFINE p == Path(head, next)
             T == {n \in 0 .. Cardinality(FB) : p[n] \notin FB \cup {NoFB}}
  <1> SUFFICES ASSUME T # {} PROVE FALSE OBVIOUS
  <1>1. /\ p[0] = head
        /\ \A n \in 1 .. Cardinality(FB) :
             p[n] = IF p[n - 1] = NoFB THEN NoFB ELSE next[p[n - 1]]
    BY PathIs
  <1> HIDE DEF p
  <1>2. T \subseteq Nat BY CardinalityFB
  <1>3. PICK n \in T : \A m \in T : n <= m BY <1>2, LeastOf
  <1>4. n # 0 BY <1>1, <1>3
  <1>5. n \in 1 .. Cardinality(FB) /\ n - 1 \in 0 .. Cardinality(FB) /\ ~(n <= n - 1)
    BY <1>3, <1>4, CardinalityFB
  <1>6. p[n - 1] \in FB \cup {NoFB} BY <1>3, <1>5
  <1>7. p[n] \in FB \cup {NoFB} BY <1>1, <1>5, <1>6
  <1> QED BY <1>3, <1>7

\* The first index at which a path meets a set, and what is found there.
LEMMA FirstMet ==
  ASSUME NEW head, NEW next, NEW stop, NEW m \in 0 .. Cardinality(FB),
         Path(head, next)[m] \in stop,
         \A j \in 0 .. m - 1 : Path(head, next)[j] \notin stop
  PROVE  FirstOf(head, next, stop) = Path(head, next)[m]
  <1> DEFINE p == Path(head, next)
             Is(i) == p[i] \in stop /\ \A j \in 0 .. i - 1 : p[j] \notin stop
             n == CHOOSE i \in DOMAIN p : Is(i)
  <1>1. m \in DOMAIN p /\ DOMAIN p = 0 .. Cardinality(FB) /\ Is(m)
    <2>1. DOMAIN p = 0 .. Cardinality(FB) BY PathIs
    <2> QED BY <2>1
  <1>2. n \in DOMAIN p /\ Is(n)
    <2> HIDE DEF p, Is
    <2> QED BY <1>1
  <1>3. n = m
    <2> HIDE DEF p, n
    <2>1. n \in Nat /\ m \in Nat BY <1>1, <1>2, CardinalityFB
    <2>2. n < m => n \in 0 .. m - 1 BY <2>1
    <2>3. m < n => m \in 0 .. n - 1 BY <2>1
    <2> QED BY <1>1, <1>2, <2>1, <2>2, <2>3
  <1>4. FirstOf(head, next, stop) = p[n] BY DEF FirstOf
  <1> HIDE DEF n, p
  <1> QED BY <1>3, <1>4 DEF p

\* FirstOf finds a member of the set a walk meets: the entry at which the while loops of
\* addTimedFBEntry and removeTimedFB stop.
LEMMA FirstTyped ==
  ASSUME NEW head, NEW next, NEW stop, Meets(head, next, stop)
  PROVE  FirstOf(head, next, stop) \in stop
  <1> DEFINE p == Path(head, next)
             T == {n \in 0 .. Cardinality(FB) : p[n] \in stop}
  <1>1. T # {} BY DEF Meets, Entries
  <1>2. T \subseteq Nat BY CardinalityFB
  <1>3. PICK m \in T : \A j \in T : m <= j
    <2> HIDE DEF T
    <2> QED BY <1>1, <1>2, LeastOf
  <1>4. ASSUME NEW j \in 0 .. m - 1 PROVE p[j] \notin stop
    <2>1. j \in 0 .. Cardinality(FB) /\ ~(m <= j) BY <1>3, CardinalityFB
    <2> QED BY <1>3, <2>1
  <1>5. FirstOf(head, next, stop) = p[m] BY <1>3, <1>4, FirstMet
  <1> QED BY <1>3, <1>5
-----------------------------------------------------------------------------
(* Lists: walks that come to an end.                                       *)

\* The n entries of a list, one behind the other from its head.
IsList(q, n, head, next) ==
  /\ n \in Nat /\ q \in [1 .. n -> FB]
  /\ \A i, j \in 1 .. n : q[i] = q[j] => i = j
  /\ head = IF n = 0 THEN NoFB ELSE q[1]
  /\ \A i \in 1 .. n : next[q[i]] = IF i = n THEN NoFB ELSE q[i + 1]
\* Its entries, as a set.
Members(q, n) == {q[i] : i \in 1 .. n}

\* A sequence of different timed blocks is no longer than there are blocks.
LEMMA NoMoreThanFB ==
  ASSUME NEW n \in Nat, NEW q \in [1 .. n -> FB],
         \A i, j \in 1 .. n : q[i] = q[j] => i = j
  PROVE  n <= Cardinality(FB)
  <1>1. IsFiniteSet(1 .. n) /\ Cardinality(1 .. n) = n
    BY FS_Interval
  <1>2. ~(Cardinality(FB) < Cardinality(1 .. n))
    BY <1>1, CardinalityFB, FS_PigeonHole
  <1> QED BY <1>1, <1>2, CardinalityFB

\* The walk along a list meets its entries in order and then the null pointer.
LEMMA PathOfList ==
  ASSUME NEW q, NEW n, NEW head, NEW next, IsList(q, n, head, next)
  PROVE  \A i \in 0 .. Cardinality(FB) :
           Path(head, next)[i] = IF i < n THEN q[i + 1] ELSE NoFB
  <1> DEFINE p == Path(head, next)
             T == {i \in 0 .. Cardinality(FB) : p[i] # IF i < n THEN q[i + 1] ELSE NoFB}
  <1> SUFFICES ASSUME T # {} PROVE FALSE OBVIOUS
  <1>1. /\ p[0] = head
        /\ \A i \in 1 .. Cardinality(FB) :
             p[i] = IF p[i - 1] = NoFB THEN NoFB ELSE next[p[i - 1]]
    BY PathIs
  <1> HIDE DEF p
  <1>2. T \subseteq Nat BY CardinalityFB
  <1>3. PICK i \in T : \A j \in T : i <= j BY <1>2, LeastOf
  <1>4. n \in Nat /\ q \in [1 .. n -> FB] /\ head = IF n = 0 THEN NoFB ELSE q[1]
    BY DEF IsList
  <1>5. i # 0 BY <1>1, <1>3, <1>4
  <1>6. /\ i \in 1 .. Cardinality(FB) /\ i - 1 \in 0 .. Cardinality(FB) /\ ~(i <= i - 1)
        /\ (i - 1) + 1 = i
    BY <1>3, <1>5, CardinalityFB
  <1>7. p[i - 1] = IF i - 1 < n THEN q[i] ELSE NoFB BY <1>3, <1>6
  <1>8. CASE i - 1 < n
    <2>1. i \in 1 .. n BY <1>4, <1>6, <1>8
    <2>2. q[i] \in FB /\ q[i] # NoFB BY <1>4, <2>1, NoFBAssumption
    <2>3. next[q[i]] = IF i = n THEN NoFB ELSE q[i + 1] BY <2>1 DEF IsList
    <2>4. p[i] = next[q[i]] BY <1>1, <1>6, <1>7, <1>8, <2>2
    <2> QED BY <1>3, <1>4, <2>1, <2>3, <2>4
  <1>9. CASE ~(i - 1 < n)
    <2>1. p[i] = NoFB BY <1>1, <1>6, <1>7, <1>9
    <2> QED BY <1>3, <1>4, <1>6, <1>9, <2>1
  <1> QED BY <1>8, <1>9

\* The walk along a list comes to its end and meets exactly its entries.
LEMMA ListFacts ==
  ASSUME NEW q, NEW n, NEW head, NEW next, IsList(q, n, head, next)
  PROVE  /\ Ends(head, next) /\ Entries(head, next) = Members(q, n)
         /\ n \in Nat /\ n <= Cardinality(FB)
  <1>1. n \in Nat /\ q \in [1 .. n -> FB] /\ n <= Cardinality(FB)
    BY NoMoreThanFB DEF IsList
  <1> DEFINE p == Path(head, next)
  <1>2. \A i \in 0 .. Cardinality(FB) : p[i] = IF i < n THEN q[i + 1] ELSE NoFB
    BY PathOfList
  <1> HIDE DEF p
  <1>3. p[Cardinality(FB)] = NoFB BY <1>1, <1>2, CardinalityFB
  <1>4. ASSUME NEW f \in Members(q, n) PROVE f \in Entries(head, next)
    <2>1. PICK i \in 1 .. n : f = q[i] BY DEF Members
    <2>2. i - 1 \in 0 .. Cardinality(FB) /\ i - 1 < n /\ (i - 1) + 1 = i BY <1>1, CardinalityFB
    <2>3. p[i - 1] = f BY <1>2, <2>1, <2>2
    <2>4. f # NoFB BY <1>1, <2>1, NoFBAssumption
    <2> QED BY <2>2, <2>3, <2>4 DEF Entries, p
  <1>5. ASSUME NEW f \in Entries(head, next) PROVE f \in Members(q, n)
    <2>1. PICK i \in 0 .. Cardinality(FB) : f = p[i] /\ f # NoFB BY DEF Entries, p
    <2>2. i < n /\ f = q[i + 1] BY <1>2, <2>1
    <2>3. i + 1 \in 1 .. n BY <1>1, <2>1, <2>2, CardinalityFB
    <2> QED BY <2>2, <2>3 DEF Members
  <1>6. Ends(head, next) BY <1>3 DEF Ends, p
  <1> QED BY <1>1, <1>4, <1>5, <1>6

\* The first entry of a list that is in a set.
LEMMA FirstInList ==
  ASSUME NEW q, NEW n, NEW head, NEW next, IsList(q, n, head, next),
         NEW stop, stop \subseteq FB, NEW k \in 1 .. n, q[k] \in stop,
         \A j \in 1 .. k - 1 : q[j] \notin stop
  PROVE  Meets(head, next, stop) /\ FirstOf(head, next, stop) = q[k]
  <1>1. n \in Nat /\ q \in [1 .. n -> FB] /\ n <= Cardinality(FB)
        /\ Entries(head, next) = Members(q, n)
    <2>1. n \in Nat /\ q \in [1 .. n -> FB] BY DEF IsList
    <2> QED BY <2>1, ListFacts
  <1>2. Meets(head, next, stop) BY <1>1 DEF Meets, Members
  <1> DEFINE p == Path(head, next)
  <1>3. \A i \in 0 .. Cardinality(FB) : p[i] = IF i < n THEN q[i + 1] ELSE NoFB
    BY PathOfList
  <1> HIDE DEF p
  <1>4. k - 1 \in 0 .. Cardinality(FB) /\ k - 1 < n /\ (k - 1) + 1 = k BY <1>1, CardinalityFB
  <1>5. p[k - 1] = q[k] BY <1>3, <1>4
  <1>6. ASSUME NEW j \in 0 .. (k - 1) - 1 PROVE p[j] \notin stop
    <2>1. j \in 0 .. Cardinality(FB) /\ j < n /\ j + 1 \in 1 .. k - 1 BY <1>1, CardinalityFB
    <2> QED BY <1>3, <2>1
  <1>7. FirstOf(head, next, stop) = p[k - 1] BY <1>4, <1>5, <1>6, FirstMet DEF p
  <1> QED BY <1>2, <1>5, <1>7

\* The entries of a list are in the order of their time-outs.
SortedBy(q, n, timeOut) ==
  \A i, j \in 1 .. n : i < j => timeOut[q[i]] <= timeOut[q[j]]

\* A list whose entries go on as before is the same list.
LEMMA SameList ==
  ASSUME NEW q, NEW n, NEW head, NEW next, NEW next2, IsList(q, n, head, next),
         \A f \in Members(q, n) : next2[f] = next[f]
  PROVE  IsList(q, n, head, next2)
  BY DEF IsList, Members

\* A list with e put in at place k.
Put(q, n, k, e) == [i \in 1 .. n + 1 |-> IF i < k THEN q[i] ELSE IF i = k THEN e ELSE q[i - 1]]

\* Linking e in front of place k, as addTimedFBEntry does, gives the list with e at k.
LEMMA PutIsList ==
  ASSUME NEW q, NEW n, NEW head, NEW next, IsList(q, n, head, next),
         NEW e \in FB, e \notin Members(q, n), NEW k \in 1 .. n + 1, NEW next2,
         next2[e] = IF k = n + 1 THEN NoFB ELSE q[k],
         k > 1 => next2[q[k - 1]] = e,
         \A i \in 1 .. n : i # k - 1 => next2[q[i]] = next[q[i]]
  PROVE  /\ IsList(Put(q, n, k, e), n + 1, IF k = 1 THEN e ELSE head, next2)
         /\ Members(Put(q, n, k, e), n + 1) = Members(q, n) \cup {e}
  <1> DEFINE r == Put(q, n, k, e)
  <1>1. /\ n \in Nat /\ q \in [1 .. n -> FB] /\ \A i, j \in 1 .. n : q[i] = q[j] => i = j
        /\ head = IF n = 0 THEN NoFB ELSE q[1]
        /\ \A i \in 1 .. n : next[q[i]] = IF i = n THEN NoFB ELSE q[i + 1]
    BY DEF IsList
  <1>2. \A i \in 1 .. n : q[i] # e BY DEF Members
  <1>3. \A i \in 1 .. n + 1 : r[i] = IF i < k THEN q[i] ELSE IF i = k THEN e ELSE q[i - 1]
    BY DEF Put
  <1>4. r \in [1 .. n + 1 -> FB]
    <2>1. \A i \in 1 .. n + 1 : i < k => i \in 1 .. n BY <1>1
    <2>2. \A i \in 1 .. n + 1 : ~(i < k) /\ i # k => i - 1 \in 1 .. n BY <1>1
    <2> QED BY <1>1, <2>1, <2>2 DEF Put
  <1> HIDE DEF r
  <1>5. \A i, j \in 1 .. n + 1 : r[i] = r[j] => i = j
    <2> SUFFICES ASSUME NEW i \in 1 .. n + 1, NEW j \in 1 .. n + 1, r[i] = r[j] PROVE i = j
      OBVIOUS
    <2>1. /\ i < k => i \in 1 .. n /\ r[i] = q[i]
          /\ i > k => i - 1 \in 1 .. n /\ r[i] = q[i - 1]
          /\ i = k => r[i] = e
      BY <1>1, <1>3
    <2>2. /\ j < k => j \in 1 .. n /\ r[j] = q[j]
          /\ j > k => j - 1 \in 1 .. n /\ r[j] = q[j - 1]
          /\ j = k => r[j] = e
      BY <1>1, <1>3
    <2>3. CASE i < k BY <1>1, <1>2, <2>1, <2>2, <2>3
    <2>4. CASE i = k BY <1>1, <1>2, <2>1, <2>2, <2>4
    <2>5. CASE i > k BY <1>1, <1>2, <2>1, <2>2, <2>5
    <2> QED BY <1>1, <2>3, <2>4, <2>5
  <1>6. (IF k = 1 THEN e ELSE head) = IF n + 1 = 0 THEN NoFB ELSE r[1]
    <2>1. 1 \in 1 .. n + 1 /\ n + 1 # 0 /\ (k # 1 => n # 0 /\ 1 < k) BY <1>1
    <2> QED BY <1>1, <1>3, <2>1
  <1>7. \A i \in 1 .. n + 1 : next2[r[i]] = IF i = n + 1 THEN NoFB ELSE r[i + 1]
    <2> SUFFICES ASSUME NEW i \in 1 .. n + 1
                 PROVE  next2[r[i]] = IF i = n + 1 THEN NoFB ELSE r[i + 1]
      OBVIOUS
    <2>1. CASE i = k
      <3>1. r[i] = e BY <1>3, <2>1
      <3>2. i # n + 1 => i + 1 \in 1 .. n + 1 /\ ~(i + 1 < k) /\ i + 1 # k /\ (i + 1) - 1 = k
        BY <1>1, <2>1
      <3>3. i # n + 1 => r[i + 1] = q[k] BY <1>3, <3>2
      <3> QED BY <2>1, <3>1, <3>3
    <2>2. CASE i = k - 1
      <3>1. /\ i < k /\ i + 1 = k /\ i + 1 \in 1 .. n + 1 /\ k > 1 /\ i # n + 1
        BY <1>1, <2>2
      <3>2. r[i] = q[k - 1] /\ r[i + 1] = e BY <1>3, <2>2, <3>1
      <3> QED BY <3>1, <3>2
    <2>3. CASE i < k - 1
      <3>1. /\ i < k /\ i + 1 < k /\ i + 1 \in 1 .. n + 1 /\ i # n + 1 /\ i \in 1 .. n /\ i # n
            /\ i # k - 1
        BY <1>1, <2>3
      <3>2. r[i] = q[i] /\ r[i + 1] = q[i + 1] BY <1>3, <3>1
      <3> QED BY <1>1, <3>1, <3>2
    <2>4. CASE i > k
      <3>1. /\ ~(i < k) /\ i # k /\ i - 1 \in 1 .. n /\ i - 1 # k - 1 /\ (i - 1) + 1 = i
            /\ i = n + 1 <=> i - 1 = n
        BY <1>1, <2>4
      <3>2. r[i] = q[i - 1] BY <1>3, <3>1
      <3>3. next2[q[i - 1]] = next[q[i - 1]] BY <3>1
      <3>4. next[q[i - 1]] = IF i - 1 = n THEN NoFB ELSE q[i] BY <1>1, <3>1
      <3>5. i # n + 1 => r[i + 1] = q[i]
        <4>1. i # n + 1 => i + 1 \in 1 .. n + 1 /\ ~(i + 1 < k) /\ i + 1 # k /\ (i + 1) - 1 = i
          BY <1>1, <2>4
        <4> QED BY <1>3, <4>1
      <3> QED BY <3>1, <3>2, <3>3, <3>4, <3>5
    <2> QED BY <1>1, <2>1, <2>2, <2>3, <2>4
  <1>8. IsList(r, n + 1, IF k = 1 THEN e ELSE head, next2)
    <2>1. n + 1 \in Nat BY <1>1
    <2> QED BY <2>1, <1>4, <1>5, <1>6, <1>7 DEF IsList
  <1>9. Members(r, n + 1) = Members(q, n) \cup {e}
    <2>1. ASSUME NEW i \in 1 .. n + 1 PROVE r[i] \in Members(q, n) \cup {e}
      <3>1. i < k => i \in 1 .. n BY <1>1
      <3>2. ~(i < k) /\ i # k => i - 1 \in 1 .. n BY <1>1
      <3> QED BY <1>3, <3>1, <3>2 DEF Members
    <2>2. ASSUME NEW i \in 1 .. n PROVE q[i] \in Members(r, n + 1)
      <3>1. CASE i < k
        <4>1. i \in 1 .. n + 1 /\ r[i] = q[i] BY <1>1, <1>3, <3>1
        <4> QED BY <4>1 DEF Members
      <3>2. CASE ~(i < k)
        <4>1. i + 1 \in 1 .. n + 1 /\ ~(i + 1 < k) /\ i + 1 # k /\ (i + 1) - 1 = i
          BY <1>1, <3>2
        <4>2. r[i + 1] = q[i] BY <1>3, <4>1
        <4> QED BY <4>1, <4>2 DEF Members
      <3> QED BY <3>1, <3>2
    <2>3. e \in Members(r, n + 1)
      <3>1. r[k] = e BY <1>3
      <3> QED BY <3>1 DEF Members
    <2>4. Members(r, n + 1) \subseteq Members(q, n) \cup {e} BY <2>1 DEF Members
    <2>5. Members(q, n) \subseteq Members(r, n + 1) BY <2>2 DEF Members
    <2> QED BY <2>3, <2>4, <2>5
  <1> QED BY <1>8, <1>9 DEF r

\* An entry put behind those that are due no later and before those that are due no earlier
\* leaves the list in order.
LEMMA PutIsSorted ==
  ASSUME NEW n \in Nat, NEW q \in [1 .. n -> FB], NEW e \in FB, NEW k \in 1 .. n + 1,
         NEW timeOut \in [FB -> Nat], SortedBy(q, n, timeOut),
         \A i \in 1 .. k - 1 : timeOut[q[i]] <= timeOut[e],
         \A i \in k .. n : timeOut[e] <= timeOut[q[i]]
  PROVE  SortedBy(Put(q, n, k, e), n + 1, timeOut)
  <1> DEFINE r == Put(q, n, k, e)
  <1>1. \A i \in 1 .. n + 1 : r[i] = IF i < k THEN q[i] ELSE IF i = k THEN e ELSE q[i - 1]
    BY DEF Put
  <1> HIDE DEF r
  <1> SUFFICES ASSUME NEW i \in 1 .. n + 1, NEW j \in 1 .. n + 1, i < j
               PROVE  timeOut[r[i]] <= timeOut[r[j]]
    BY DEF SortedBy, r
  <1>2. /\ i < k => r[i] = q[i] /\ i \in 1 .. n /\ i \in 1 .. k - 1
        /\ i = k => r[i] = e
        /\ i > k => r[i] = q[i - 1] /\ i - 1 \in 1 .. n /\ i - 1 \in k .. n
    BY <1>1
  <1>3. /\ j < k => r[j] = q[j] /\ j \in 1 .. n /\ j \in 1 .. k - 1
        /\ j = k => r[j] = e
        /\ j > k => r[j] = q[j - 1] /\ j - 1 \in 1 .. n /\ j - 1 \in k .. n
    BY <1>1
  <1>4. \A a, b \in 1 .. n : a <= b => timeOut[q[a]] <= timeOut[q[b]]
    <2> SUFFICES ASSUME NEW a \in 1 .. n, NEW b \in 1 .. n, a <= b
                 PROVE  timeOut[q[a]] <= timeOut[q[b]]
      OBVIOUS
    <2>1. timeOut[q[a]] \in Nat OBVIOUS
    <2> QED BY <2>1 DEF SortedBy
  <1>5. CASE i < k /\ j < k BY <1>2, <1>3, <1>4, <1>5
  <1>6. CASE i < k /\ j = k BY <1>2, <1>3, <1>6
  <1>7. CASE i < k /\ j > k
    <2>1. i <= j - 1 BY <1>7
    <2> QED BY <1>2, <1>3, <1>4, <1>7, <2>1
  <1>8. CASE i = k /\ j > k BY <1>2, <1>3, <1>8
  <1>9. CASE i > k /\ j > k
    <2>1. i - 1 <= j - 1 BY <1>9
    <2> QED BY <1>2, <1>3, <1>4, <1>9, <2>1
  <1> QED BY <1>5, <1>6, <1>7, <1>8, <1>9

\* A list without the entry at place k.
Cut(q, n, k) == [i \in 1 .. n - 1 |-> IF i < k THEN q[i] ELSE q[i + 1]]

\* Unlinking the entry at place k, as removeTimedFB and the two list walks of nextTick do,
\* gives the list without it.
LEMMA CutIsList ==
  ASSUME NEW q, NEW n, NEW head, NEW next, IsList(q, n, head, next), NEW k \in 1 .. n,
         NEW next2, k > 1 => next2[q[k - 1]] = next[q[k]],
         \A i \in 1 .. n : i # k - 1 /\ i # k => next2[q[i]] = next[q[i]]
  PROVE  /\ IsList(Cut(q, n, k), n - 1, IF k = 1 THEN next[head] ELSE head, next2)
         /\ Members(Cut(q, n, k), n - 1) = Members(q, n) \ {q[k]}
  <1> DEFINE r == Cut(q, n, k)
  <1>1. /\ n \in Nat /\ q \in [1 .. n -> FB] /\ \A i, j \in 1 .. n : q[i] = q[j] => i = j
        /\ head = IF n = 0 THEN NoFB ELSE q[1]
        /\ \A i \in 1 .. n : next[q[i]] = IF i = n THEN NoFB ELSE q[i + 1]
    BY DEF IsList
  <1>2. n - 1 \in Nat /\ n # 0 BY <1>1
  <1>3. \A i \in 1 .. n - 1 : r[i] = IF i < k THEN q[i] ELSE q[i + 1]
    BY DEF Cut
  <1>4. r \in [1 .. n - 1 -> FB]
    <2>1. \A i \in 1 .. n - 1 : i \in 1 .. n /\ i + 1 \in 1 .. n BY <1>1
    <2> QED BY <1>1, <2>1 DEF Cut
  <1> HIDE DEF r
  <1>5. \A i, j \in 1 .. n - 1 : r[i] = r[j] => i = j
    <2> SUFFICES ASSUME NEW i \in 1 .. n - 1, NEW j \in 1 .. n - 1, r[i] = r[j] PROVE i = j
      OBVIOUS
    <2>1. i \in 1 .. n /\ i + 1 \in 1 .. n /\ j \in 1 .. n /\ j + 1 \in 1 .. n BY <1>1
    <2> QED BY <1>1, <1>3, <2>1
  <1>6. (IF k = 1 THEN next[head] ELSE head) = IF n - 1 = 0 THEN NoFB ELSE r[1]
    <2>1. CASE k = 1
      <3>1. 1 \in 1 .. n /\ head = q[1] BY <1>1, <1>2
      <3>2. next[head] = IF 1 = n THEN NoFB ELSE q[1 + 1] BY <1>1, <3>1
      <3>3. n - 1 # 0 => 1 \in 1 .. n - 1 /\ ~(1 < k) BY <1>1, <1>2, <2>1
      <3> QED BY <1>2, <1>3, <2>1, <3>2, <3>3
    <2>2. CASE k # 1
      <3>1. 1 < k /\ 1 \in 1 .. n - 1 /\ n - 1 # 0 BY <1>1, <2>2
      <3> QED BY <1>1, <1>2, <1>3, <2>2, <3>1
    <2> QED BY <2>1, <2>2
  <1>7. \A i \in 1 .. n - 1 : next2[r[i]] = IF i = n - 1 THEN NoFB ELSE r[i + 1]
    <2> SUFFICES ASSUME NEW i \in 1 .. n - 1
                 PROVE  next2[r[i]] = IF i = n - 1 THEN NoFB ELSE r[i + 1]
      OBVIOUS
    <2>1. CASE i = k - 1
      <3>1. /\ i < k /\ k > 1 /\ k \in 1 .. n /\ i + 1 = k /\ ~(i + 1 < k)
            /\ i = n - 1 <=> k = n
            /\ i # n - 1 => i + 1 \in 1 .. n - 1
        BY <1>1, <2>1
      <3>2. r[i] = q[k - 1] BY <1>3, <2>1, <3>1
      <3>3. next[q[k]] = IF k = n THEN NoFB ELSE q[k + 1] BY <1>1
      <3>4. i # n - 1 => r[i + 1] = q[k + 1] BY <1>3, <3>1
      <3> QED BY <3>1, <3>2, <3>3, <3>4
    <2>2. CASE i < k - 1
      <3>1. /\ i < k /\ i + 1 < k /\ i \in 1 .. n /\ i # n /\ i # n - 1 /\ i + 1 \in 1 .. n - 1
            /\ i # k - 1 /\ i # k
        BY <1>1, <2>2
      <3>2. r[i] = q[i] /\ r[i + 1] = q[i + 1] BY <1>3, <3>1
      <3> QED BY <1>1, <3>1, <3>2
    <2>3. CASE i >= k
      <3>1. /\ ~(i < k) /\ i + 1 \in 1 .. n /\ i + 1 # k - 1 /\ i + 1 # k
            /\ i = n - 1 <=> i + 1 = n
        BY <1>1, <2>3
      <3>2. r[i] = q[i + 1] BY <1>3, <3>1
      <3>3. next2[q[i + 1]] = next[q[i + 1]] BY <3>1
      <3>4. next[q[i + 1]] = IF i + 1 = n THEN NoFB ELSE q[(i + 1) + 1] BY <1>1, <3>1
      <3>5. i # n - 1 => r[i + 1] = q[(i + 1) + 1]
        <4>1. i # n - 1 => i + 1 \in 1 .. n - 1 /\ ~(i + 1 < k) BY <1>1, <2>3
        <4> QED BY <1>3, <4>1
      <3> QED BY <3>1, <3>2, <3>3, <3>4, <3>5
    <2> QED BY <1>1, <2>1, <2>2, <2>3
  <1>8. IsList(r, n - 1, IF k = 1 THEN next[head] ELSE head, next2)
    BY <1>2, <1>4, <1>5, <1>6, <1>7 DEF IsList
  <1>9. Members(r, n - 1) = Members(q, n) \ {q[k]}
    <2>1. ASSUME NEW i \in 1 .. n - 1 PROVE r[i] \in Members(q, n) \ {q[k]}
      <3>1. i \in 1 .. n /\ i + 1 \in 1 .. n BY <1>1
      <3>2. CASE i < k
        <4>1. r[i] = q[i] /\ i # k BY <1>3, <3>2
        <4> QED BY <1>1, <3>1, <4>1 DEF Members
      <3>3. CASE ~(i < k)
        <4>1. r[i] = q[i + 1] /\ i + 1 # k BY <1>3, <3>3
        <4> QED BY <1>1, <3>1, <4>1 DEF Members
      <3> QED BY <3>2, <3>3
    <2>2. ASSUME NEW i \in 1 .. n, i # k PROVE q[i] \in Members(r, n - 1)
      <3>1. CASE i < k
        <4>1. i \in 1 .. n - 1 /\ r[i] = q[i] BY <1>1, <1>3, <3>1
        <4> QED BY <4>1 DEF Members
      <3>2. CASE ~(i < k)
        <4>1. i - 1 \in 1 .. n - 1 /\ ~(i - 1 < k) /\ (i - 1) + 1 = i BY <1>1, <2>2, <3>2
        <4>2. r[i - 1] = q[i] BY <1>3, <4>1
        <4> QED BY <4>1, <4>2 DEF Members
      <3> QED BY <3>1, <3>2
    <2>3. Members(r, n - 1) \subseteq Members(q, n) \ {q[k]} BY <2>1 DEF Members
    <2>4. Members(q, n) \ {q[k]} \subseteq Members(r, n - 1) BY <2>2 DEF Members
    <2> QED BY <2>3, <2>4
  <1> QED BY <1>8, <1>9 DEF r

\* A list stays in order when an entry leaves it.
LEMMA CutIsSorted ==
  ASSUME NEW n \in Nat, NEW q, NEW k \in 1 .. n, NEW timeOut, SortedBy(q, n, timeOut)
  PROVE  SortedBy(Cut(q, n, k), n - 1, timeOut)
  <1> DEFINE r == Cut(q, n, k)
  <1>1. \A i \in 1 .. n - 1 : r[i] = IF i < k THEN q[i] ELSE q[i + 1]
    BY DEF Cut
  <1> HIDE DEF r
  <1> SUFFICES ASSUME NEW i \in 1 .. n - 1, NEW j \in 1 .. n - 1, i < j
               PROVE  timeOut[r[i]] <= timeOut[r[j]]
    BY DEF SortedBy, r
  <1>2. i \in 1 .. n /\ i + 1 \in 1 .. n /\ j \in 1 .. n /\ j + 1 \in 1 .. n OBVIOUS
  <1>3. i < j + 1 /\ i + 1 < j + 1 OBVIOUS
  <1>4. CASE i < k /\ j < k BY <1>1, <1>2, <1>4 DEF SortedBy
  <1>5. CASE i < k /\ ~(j < k) BY <1>1, <1>2, <1>3, <1>5 DEF SortedBy
  <1>6. CASE ~(i < k) BY <1>1, <1>2, <1>3, <1>6 DEF SortedBy
  <1> QED BY <1>4, <1>5, <1>6

\* The time-outs of a list's entries are all its order depends on.
LEMMA SameOrder ==
  ASSUME NEW q, NEW n, NEW timeOut, NEW timeOut2, SortedBy(q, n, timeOut),
         \A f \in Members(q, n) : timeOut2[f] = timeOut[f]
  PROVE  SortedBy(q, n, timeOut2)
  BY DEF SortedBy, Members

\* addTimedFBEntry ends its loop and puts the entry in its place.
LEMMA AddFacts ==
  ASSUME NEW q, NEW n, NEW head, NEW next \in [FB -> FB \cup {NoFB}], IsList(q, n, head, next),
         NEW e \in FB, e \notin Members(q, n),
         NEW timeOut \in [FB -> Nat], SortedBy(q, n, timeOut)
  PROVE  LET added == AddTimedFBEntry(e, head, next, timeOut) IN
         /\ CanAdd(e, head, next, timeOut)
         /\ \E r : /\ IsList(r, n + 1, added.head, added.next)
                   /\ Members(r, n + 1) = Members(q, n) \cup {e}
                   /\ SortedBy(r, n + 1, timeOut)
         /\ added.next \in [FB -> FB \cup {NoFB}]
         /\ \A f \in FB \ (Members(q, n) \cup {e}) : added.next[f] = next[f]
  <1> DEFINE added == AddTimedFBEntry(e, head, next, timeOut)
             cut == [next EXCEPT ![e] = NoFB]
             stop == StopsAt(e, cut, timeOut)
             runner == FirstOf(head, cut, stop)
             later == Later(e, timeOut)
  <1>1. /\ n \in Nat /\ q \in [1 .. n -> FB] /\ \A i, j \in 1 .. n : q[i] = q[j] => i = j
        /\ head = IF n = 0 THEN NoFB ELSE q[1]
        /\ \A i \in 1 .. n : next[q[i]] = IF i = n THEN NoFB ELSE q[i + 1]
    BY DEF IsList
  <1>2. \A i \in 1 .. n : q[i] # e BY DEF Members
  <1>3. /\ cut \in [FB -> FB \cup {NoFB}] /\ cut[e] = NoFB
        /\ \A f \in FB : f # e => cut[f] = next[f]
    OBVIOUS
  <1>4. \A f \in FB : (f \in later <=> timeOut[f] > timeOut[e])
    BY DEF Later
  <1>5. later \subseteq FB BY DEF Later
  <1>6. IsList(q, n, head, cut)
    <2>1. \A f \in Members(q, n) : cut[f] = next[f] BY <1>1, <1>2, <1>3 DEF Members
    <2> HIDE DEF cut
    <2> QED BY <2>1, SameList
  <1>7. CASE head \in later \cup {NoFB}
    <2>1. added = [head |-> e, next |-> [cut EXCEPT ![e] = head]]
      BY <1>7 DEF AddTimedFBEntry
    <2>2. CanAdd(e, head, next, timeOut) BY <1>7 DEF CanAdd
    <2> DEFINE r == Put(q, n, 1, e)
    <2>3. 1 \in 1 .. n + 1 /\ (1 = n + 1 <=> n = 0) BY <1>1
    <2>4. /\ added.next \in [FB -> FB \cup {NoFB}] /\ added.next[e] = head
          /\ \A f \in FB : f # e => added.next[f] = next[f] /\ added.head = e
      <3>1. head \in FB \cup {NoFB} BY <1>1
      <3> HIDE DEF added
      <3> QED BY <2>1, <3>1, <1>3
    <2>5. added.head = e BY <2>1
    <2> HIDE DEF added, cut, later
    <2>6. IsList(r, n + 1, added.head, added.next) /\ Members(r, n + 1) = Members(q, n) \cup {e}
      <3>1. added.next[e] = IF 1 = n + 1 THEN NoFB ELSE q[1] BY <1>1, <2>3, <2>4
      <3>2. \A i \in 1 .. n : added.next[q[i]] = next[q[i]] BY <1>1, <1>2, <2>4
      <3> QED BY <2>3, <2>5, <3>1, <3>2, PutIsList
    <2>7. SortedBy(r, n + 1, timeOut)
      <3>1. ASSUME NEW i \in 1 .. n PROVE timeOut[e] <= timeOut[q[i]]
        <4>1. q[1] \in later /\ 1 \in 1 .. n BY <1>1, <1>7, NoFBAssumption
        <4>2. timeOut[q[1]] > timeOut[e] /\ timeOut[q[1]] \in Nat /\ timeOut[q[i]] \in Nat
          BY <1>1, <1>4, <4>1
        <4>3. timeOut[q[1]] <= timeOut[q[i]] BY <4>1, <4>2 DEF SortedBy
        <4> QED BY <4>2, <4>3
      <3>2. \A i \in 1 .. 1 - 1 : timeOut[q[i]] <= timeOut[e] OBVIOUS
      <3> QED BY <1>1, <2>3, <3>1, <3>2, PutIsSorted
    <2> HIDE DEF r
    <2> QED BY <2>2, <2>4, <2>6, <2>7 DEF added
  <1>8. CASE head \notin later \cup {NoFB}
    <2>0. n # 0 /\ head = q[1] /\ 1 \in 1 .. n BY <1>1, <1>8
    <2>1. stop \subseteq FB /\ \A f \in FB : f \in stop <=> cut[f] \in later \cup {NoFB}
      BY DEF StopsAt
    <2> HIDE DEF cut, stop, later
    <2> DEFINE T == {i \in 1 .. n : q[i] \in stop}
    <2>2. n \in T
      <3>1. n \in 1 .. n /\ cut[q[n]] = NoFB BY <1>1, <1>2, <1>3, <2>0
      <3> QED BY <1>1, <2>1, <3>1
    <2>3. T \subseteq Nat BY <1>1
    <2>4. PICK k \in T : \A j \in T : k <= j
      <3> HIDE DEF T
      <3> QED BY <2>2, <2>3, LeastOf
    <2>5. k \in 1 .. n /\ q[k] \in stop /\ q[k] \in FB BY <1>1
    <2>6. \A j \in 1 .. k - 1 : q[j] \notin stop
      <3> SUFFICES ASSUME NEW j \in 1 .. k - 1 PROVE q[j] \notin stop OBVIOUS
      <3>1. j \in 1 .. n /\ ~(k <= j) BY <1>1, <2>5
      <3> QED BY <2>4, <3>1
    <2>7. Meets(head, cut, stop) /\ runner = q[k]
      BY <1>6, <2>1, <2>5, <2>6, FirstInList
    <2> HIDE DEF runner
    <2>8. added = [head |-> head,
                   next |-> [[cut EXCEPT ![e] = cut[runner]] EXCEPT ![runner] = e]]
      BY <1>8 DEF AddTimedFBEntry, cut, later, stop, runner
    <2>9. CanAdd(e, head, next, timeOut) BY <2>7 DEF CanAdd, cut, stop
    <2>10. /\ added.head = head /\ added.next \in [FB -> FB \cup {NoFB}]
           /\ added.next[e] = cut[q[k]] /\ added.next[q[k]] = e
           /\ \A f \in FB : f # e /\ f # q[k] => added.next[f] = cut[f]
      <3>1. q[k] # e BY <1>2, <2>5
      <3> HIDE DEF added
      <3> QED BY <1>3, <2>5, <2>7, <2>8, <3>1
    <2> HIDE DEF added
    <2>11. cut[q[k]] = IF k = n THEN NoFB ELSE q[k + 1] BY <1>1, <1>2, <1>3, <2>5
    <2> DEFINE r == Put(q, n, k + 1, e)
    <2>12. k + 1 \in 1 .. n + 1 /\ k + 1 # 1 /\ (k + 1) - 1 = k /\ (k + 1 = n + 1 <=> k = n)
      BY <1>1, <2>5
    <2>13. IsList(r, n + 1, added.head, added.next) /\ Members(r, n + 1) = Members(q, n) \cup {e}
      <3>1. added.next[e] = IF k + 1 = n + 1 THEN NoFB ELSE q[k + 1] BY <2>10, <2>11, <2>12
      <3>2. \A i \in 1 .. n : i # (k + 1) - 1 => added.next[q[i]] = next[q[i]]
        BY <1>1, <1>2, <1>3, <2>5, <2>10, <2>12
      <3>3. IsList(r, n + 1, IF k + 1 = 1 THEN e ELSE head, added.next)
            /\ Members(r, n + 1) = Members(q, n) \cup {e}
        BY <2>10, <2>12, <3>1, <3>2, PutIsList
      <3> QED BY <2>10, <2>12, <3>3
    <2>14. SortedBy(r, n + 1, timeOut)
      <3>1. ASSUME NEW i \in 1 .. (k + 1) - 1 PROVE timeOut[q[i]] <= timeOut[e]
        <4>1. i \in 1 .. n BY <1>1, <2>5
        <4>2. q[i] \notin later
          <5>1. CASE i = 1 BY <1>8, <2>0, <5>1
          <5>2. CASE i # 1
            <6>1. i - 1 \in 1 .. k - 1 /\ i - 1 \in 1 .. n /\ i - 1 # n /\ (i - 1) + 1 = i
              BY <1>1, <2>5, <4>1, <5>2
            <6>2. q[i - 1] \notin stop /\ q[i - 1] \in FB BY <1>1, <2>6, <6>1
            <6>3. cut[q[i - 1]] = q[i] BY <1>1, <1>2, <1>3, <6>1
            <6> QED BY <2>1, <6>2, <6>3
          <5> QED BY <5>1, <5>2
        <4>3. timeOut[q[i]] \in Nat /\ timeOut[e] \in Nat /\ ~(timeOut[q[i]] > timeOut[e])
          BY <1>1, <1>4, <4>1, <4>2
        <4> QED BY <4>3
      <3>2. ASSUME NEW i \in k + 1 .. n PROVE timeOut[e] <= timeOut[q[i]]
        <4>1. k # n /\ k + 1 \in 1 .. n /\ i \in 1 .. n BY <1>1, <2>5
        <4>2. q[k + 1] \in later
          <5>1. cut[q[k]] = q[k + 1] /\ q[k + 1] \in FB BY <1>1, <2>11, <4>1
          <5> QED BY <2>1, <2>5, <5>1, NoFBAssumption
        <4>3. timeOut[e] < timeOut[q[k + 1]] /\ timeOut[q[k + 1]] \in Nat /\ timeOut[q[i]] \in Nat
              /\ timeOut[e] \in Nat
          BY <1>1, <1>4, <4>1, <4>2
        <4>4. timeOut[q[k + 1]] <= timeOut[q[i]] BY <4>1, <4>3 DEF SortedBy
        <4> QED BY <4>3, <4>4
      <3> QED BY <1>1, <2>12, <3>1, <3>2, PutIsSorted
    <2>15. \A f \in FB \ (Members(q, n) \cup {e}) : added.next[f] = next[f]
      BY <1>3, <2>5, <2>10 DEF Members
    <2> HIDE DEF r
    <2> QED BY <2>9, <2>10, <2>13, <2>14, <2>15 DEF added
  <1> QED BY <1>7, <1>8
-----------------------------------------------------------------------------
(* The operations of the timer handler on a list.                          *)

\* The types of the lists and of the fields of the entries.
EntriesTyped ==
  /\ mNext \in [FB -> FB \cup {NoFB}] /\ mTimeOut \in [FB -> Nat] /\ mInterval \in [FB -> Nat]
  /\ mForteTime \in Nat /\ mTimedFBList \in FB \cup {NoFB} /\ mAddFBList \in FB \cup {NoFB}

\* removeTimedFB(f) leaves the timed list without f, in order, and touches no other time-out
\* and no link of an entry that is not on it.
LEMMA RemoveFacts ==
  ASSUME EntriesTyped, NEW t, NEW n, IsList(t, n, mTimedFBList, mNext),
         SortedBy(t, n, mTimeOut), NEW f \in FB, RemoveTimedFB(f)
  PROVE  /\ \E r, m : /\ IsList(r, m, mTimedFBList', mNext')
                      /\ Members(r, m) = Members(t, n) \ {f}
                      /\ SortedBy(r, m, mTimeOut')
         /\ \A g \in FB \ Members(t, n) : mNext'[g] = mNext[g]
         /\ \A g \in FB : g # f => mTimeOut'[g] = mTimeOut[g]
  <1> DEFINE before == {r \in FB : mNext[r] = f}
             pred == FirstOf(mTimedFBList, mNext, before)
  <1>1. /\ n \in Nat /\ t \in [1 .. n -> FB] /\ \A i, j \in 1 .. n : t[i] = t[j] => i = j
        /\ mTimedFBList = IF n = 0 THEN NoFB ELSE t[1]
        /\ \A i \in 1 .. n : mNext[t[i]] = IF i = n THEN NoFB ELSE t[i + 1]
    BY DEF IsList
  <1>2. mNext \in [FB -> FB \cup {NoFB}] /\ mTimeOut \in [FB -> Nat] BY DEF EntriesTyped
  <1>3. \A i \in 1 .. n : t[i] \in before <=> i # n /\ t[i + 1] = f
    BY <1>1, NoFBAssumption
  <1>4. CASE f \notin Members(t, n)
    <2>1. \A i \in 1 .. n : t[i] # f BY <1>4 DEF Members
    <2>2. mTimedFBList # f BY <1>1, <2>1, NoFBAssumption
    <2>3. \A i \in 1 .. n : t[i] \notin before
      <3> SUFFICES ASSUME NEW i \in 1 .. n, i # n, t[i + 1] = f PROVE FALSE BY <1>3
      <3>1. i + 1 \in 1 .. n BY <1>1
      <3> QED BY <2>1, <3>1
    <2>4. ~Meets(mTimedFBList, mNext, before)
      <3> HIDE DEF before
      <3>1. Entries(mTimedFBList, mNext) = Members(t, n) BY ListFacts
      <3> QED BY <2>3, <3>1 DEF Meets, Members
    <2>5. UNCHANGED <<mTimedFBList, mNext, mTimeOut>> BY <2>2, <2>4 DEF RemoveTimedFB
    <2>6. Members(t, n) = Members(t, n) \ {f} BY <1>4
    <2> QED BY <2>5, <2>6
  <1>5. CASE f \in Members(t, n)
    <2>1. PICK k \in 1 .. n : t[k] = f BY <1>5 DEF Members
    <2> DEFINE r == Cut(t, n, k)
    <2>2. /\ mTimedFBList' = IF k = 1 THEN mNext[mTimedFBList] ELSE mTimedFBList
          /\ k > 1 => mNext'[t[k - 1]] = mNext[t[k]]
          /\ \A g \in FB : g # f /\ (k > 1 => g # t[k - 1]) => mNext'[g] = mNext[g]
          /\ mTimeOut' = [mTimeOut EXCEPT ![f] = 0]
      <3>1. CASE k = 1
        <4>1. mTimedFBList = f BY <1>1, <2>1, <3>1
        <4>2. mTimedFBList' = mNext[f] /\ mNext' = [mNext EXCEPT ![f] = NoFB]
              /\ mTimeOut' = [mTimeOut EXCEPT ![f] = 0]
          BY <4>1 DEF RemoveTimedFB
        <4> QED BY <1>2, <3>1, <4>1, <4>2
      <3>2. CASE k # 1
        <4>1. k - 1 \in 1 .. n /\ k - 1 # n /\ (k - 1) + 1 = k /\ k > 1 /\ 1 \in 1 .. n
          BY <1>1, <2>1, <3>2
        <4>2. t[k - 1] \in before BY <1>3, <2>1, <4>1
        <4>3. \A j \in 1 .. (k - 1) - 1 : t[j] \notin before
          <5> SUFFICES ASSUME NEW j \in 1 .. (k - 1) - 1 PROVE t[j] \notin before OBVIOUS
          <5>1. j \in 1 .. n /\ j + 1 \in 1 .. n /\ j + 1 # k BY <1>1, <4>1
          <5>2. t[j + 1] # f BY <1>1, <2>1, <5>1
          <5> QED BY <1>3, <5>1, <5>2
        <4>4. before \subseteq FB OBVIOUS
        <4>5. Meets(mTimedFBList, mNext, before) /\ pred = t[k - 1]
          <5> HIDE DEF before
          <5> QED BY <4>1, <4>2, <4>3, <4>4, FirstInList
        <4>6. mTimedFBList # f BY <1>1, <2>1, <3>2, <4>1
        <4> HIDE DEF before
        <4>7. mNext' = [[mNext EXCEPT ![pred] = mNext[f]] EXCEPT ![f] = NoFB]
              /\ mTimeOut' = [mTimeOut EXCEPT ![f] = 0] /\ mTimedFBList' = mTimedFBList
          BY <4>5, <4>6 DEF RemoveTimedFB, before
        <4> HIDE DEF pred
        <4>8. t[k - 1] # f /\ t[k - 1] \in FB BY <1>1, <2>1, <3>2, <4>1
        <4>9. mNext'[t[k - 1]] = mNext[f] BY <1>2, <4>5, <4>7, <4>8
        <4>10. \A g \in FB : g # f /\ g # t[k - 1] => mNext'[g] = mNext[g]
          BY <1>2, <4>5, <4>7
        <4> QED BY <2>1, <3>2, <4>1, <4>7, <4>9, <4>10
      <3> QED BY <3>1, <3>2
    <2>3. \A i \in 1 .. n : i # k - 1 /\ i # k => mNext'[t[i]] = mNext[t[i]]
      <3> SUFFICES ASSUME NEW i \in 1 .. n, i # k - 1, i # k PROVE mNext'[t[i]] = mNext[t[i]]
        OBVIOUS
      <3>1. t[i] \in FB /\ t[i] # f BY <1>1, <2>1
      <3>2. k > 1 => t[i] # t[k - 1]
        <4>1. k > 1 => k - 1 \in 1 .. n BY <1>1
        <4> QED BY <1>1, <4>1
      <3> QED BY <2>2, <3>1, <3>2
    <2>4. IsList(r, n - 1, mTimedFBList', mNext') /\ Members(r, n - 1) = Members(t, n) \ {f}
      BY <2>1, <2>2, <2>3, CutIsList
    <2>5. \A g \in FB \ Members(t, n) : mNext'[g] = mNext[g]
      <3>1. k > 1 => t[k - 1] \in Members(t, n)
        <4>1. k > 1 => k - 1 \in 1 .. n BY <1>1
        <4> QED BY <4>1 DEF Members
      <3> QED BY <1>5, <2>2, <3>1
    <2>6. \A g \in FB : g # f => mTimeOut'[g] = mTimeOut[g] BY <1>2, <2>2
    <2>7. SortedBy(r, n - 1, mTimeOut')
      <3>1. SortedBy(r, n - 1, mTimeOut) BY <1>1, CutIsSorted
      <3>2. Members(t, n) \subseteq FB BY <1>1 DEF Members
      <3>3. \A g \in Members(r, n - 1) : mTimeOut'[g] = mTimeOut[g] BY <2>4, <2>6, <3>2
      <3> HIDE DEF r
      <3> QED BY <3>1, <3>3, SameOrder
    <2> HIDE DEF r
    <2> QED BY <2>4, <2>5, <2>6, <2>7
  <1> QED BY <1>4, <1>5

\* triggerTimedFB(f), f unlinked from the list with head `head', puts a periodic f back in its
\* place and no other f, and touches no link of any other entry outside the list.
LEMMA TriggerFacts ==
  ASSUME EntriesTyped, NEW q, NEW n, NEW head, IsList(q, n, head, mNext),
         SortedBy(q, n, mTimeOut), NEW f \in FB, f \notin Members(q, n), TriggerTimedFB(f, head)
  PROVE  /\ \E r, m : /\ IsList(r, m, mTimedFBList', mNext')
                      /\ Members(r, m) = IF f \in Periodic THEN Members(q, n) \cup {f}
                                         ELSE Members(q, n)
                      /\ SortedBy(r, m, mTimeOut')
         /\ \A g \in FB \ (Members(q, n) \cup {f}) : mNext'[g] = mNext[g]
         /\ mTimeOut' = [mTimeOut EXCEPT ![f] = IF f \in Periodic
                                                  THEN mForteTime + mInterval[f] ELSE 0]
  <1>1. /\ mNext \in [FB -> FB \cup {NoFB}] /\ mTimeOut \in [FB -> Nat]
        /\ mForteTime \in Nat /\ mInterval[f] \in Nat
    BY DEF EntriesTyped
  <1>2. Members(q, n) \subseteq FB BY DEF Members, IsList
  <1>3. CASE f \in Periodic
    <2> DEFINE again == [mTimeOut EXCEPT ![f] = mForteTime + mInterval[f]]
               added == AddTimedFBEntry(f, head, mNext, again)
    <2>1. mTimeOut' = again /\ mTimedFBList' = added.head /\ mNext' = added.next
      BY <1>3 DEF TriggerTimedFB
    <2>2. again \in [FB -> Nat] /\ \A g \in Members(q, n) : again[g] = mTimeOut[g]
      BY <1>1, <1>2
    <2> HIDE DEF again
    <2>3. SortedBy(q, n, again) BY <2>2, SameOrder
    <2>4. /\ \E r : /\ IsList(r, n + 1, added.head, added.next)
                    /\ Members(r, n + 1) = Members(q, n) \cup {f}
                    /\ SortedBy(r, n + 1, again)
          /\ \A g \in FB \ (Members(q, n) \cup {f}) : added.next[g] = mNext[g]
      BY <1>1, <2>2, <2>3, AddFacts
    <2> HIDE DEF added
    <2> QED BY <1>3, <2>1, <2>4 DEF again
  <1>4. CASE f \notin Periodic
    <2>1. /\ mTimeOut' = [mTimeOut EXCEPT ![f] = 0] /\ mTimedFBList' = head
          /\ mNext' = [mNext EXCEPT ![f] = NoFB]
      BY <1>4 DEF TriggerTimedFB
    <2>2. \A g \in FB : g # f => mTimeOut'[g] = mTimeOut[g] /\ mNext'[g] = mNext[g]
      BY <1>1, <2>1
    <2>3. IsList(q, n, mTimedFBList', mNext')
      <3>1. \A g \in Members(q, n) : mNext'[g] = mNext[g] BY <1>2, <2>2
      <3> QED BY <2>1, <3>1, SameList
    <2>4. SortedBy(q, n, mTimeOut')
      <3>1. \A g \in Members(q, n) : mTimeOut'[g] = mTimeOut[g] BY <1>2, <2>2
      <3> QED BY <3>1, SameOrder
    <2> QED BY <1>4, <2>1, <2>2, <2>3, <2>4
  <1> QED BY <1>3, <1>4
-----------------------------------------------------------------------------
(* Types.                                                                  *)

\* addTimedFBEntry leaves links to blocks and to nothing else.
LEMMA AddTyped ==
  ASSUME NEW head \in FB \cup {NoFB}, NEW next \in [FB -> FB \cup {NoFB}], NEW e \in FB,
         NEW timeOut, CanAdd(e, head, next, timeOut)
  PROVE  /\ AddTimedFBEntry(e, head, next, timeOut).head \in FB \cup {NoFB}
         /\ AddTimedFBEntry(e, head, next, timeOut).next \in [FB -> FB \cup {NoFB}]
  <1> DEFINE cut == [next EXCEPT ![e] = NoFB]
             stop == StopsAt(e, cut, timeOut)
             runner == FirstOf(head, cut, stop)
  <1>1. cut \in [FB -> FB \cup {NoFB}] /\ stop \subseteq FB BY DEF StopsAt
  <1>2. CASE head \in Later(e, timeOut) \cup {NoFB}
    <2>1. AddTimedFBEntry(e, head, next, timeOut) =
            [head |-> e, next |-> [cut EXCEPT ![e] = head]]
      BY <1>2 DEF AddTimedFBEntry
    <2> HIDE DEF cut
    <2> QED BY <1>1, <2>1
  <1>3. CASE head \notin Later(e, timeOut) \cup {NoFB}
    <2>1. Meets(head, cut, stop) BY <1>3 DEF CanAdd
    <2> HIDE DEF cut, stop
    <2>2. runner \in FB BY <1>1, <2>1, FirstTyped
    <2> HIDE DEF runner
    <2>3. AddTimedFBEntry(e, head, next, timeOut) =
            [head |-> head,
             next |-> [[cut EXCEPT ![e] = cut[runner]] EXCEPT ![runner] = e]]
      BY <1>3 DEF AddTimedFBEntry, cut, stop, runner
    <2>4. cut[runner] \in FB \cup {NoFB} BY <1>1, <2>2
    <2>5. [[cut EXCEPT ![e] = cut[runner]] EXCEPT ![runner] = e] \in [FB -> FB \cup {NoFB}]
      BY <1>1, <2>2, <2>4
    <2> QED BY <2>3, <2>5
  <1> QED BY <1>2, <1>3

\* removeTimedFB leaves links to blocks and to nothing else.
LEMMA RemoveTyped ==
  ASSUME EntriesTyped, NEW f \in FB, RemoveTimedFB(f), UNCHANGED <<mForteTime, mInterval, mAddFBList>>
  PROVE  EntriesTyped'
  <1> DEFINE before == {r \in FB : mNext[r] = f}
             pred == FirstOf(mTimedFBList, mNext, before)
  <1>1. /\ mNext \in [FB -> FB \cup {NoFB}] /\ mTimeOut \in [FB -> Nat] /\ mNext[f] \in FB \cup {NoFB}
        /\ mTimedFBList \in FB \cup {NoFB}
    BY DEF EntriesTyped
  <1>2. /\ mTimedFBList' \in FB \cup {NoFB} /\ mNext' \in [FB -> FB \cup {NoFB}]
        /\ mTimeOut' \in [FB -> Nat]
    <2>1. CASE mTimedFBList = f
      <3>1. mTimedFBList' = mNext[f] /\ mNext' = [mNext EXCEPT ![f] = NoFB]
            /\ mTimeOut' = [mTimeOut EXCEPT ![f] = 0]
        BY <2>1 DEF RemoveTimedFB
      <3> QED BY <1>1, <3>1
    <2>2. CASE mTimedFBList # f /\ Meets(mTimedFBList, mNext, before)
      <3>1. mNext' = [[mNext EXCEPT ![pred] = mNext[f]] EXCEPT ![f] = NoFB]
            /\ mTimeOut' = [mTimeOut EXCEPT ![f] = 0] /\ mTimedFBList' = mTimedFBList
        BY <2>2 DEF RemoveTimedFB
      <3> HIDE DEF pred
      <3> QED BY <1>1, <3>1
    <2>3. CASE mTimedFBList # f /\ ~Meets(mTimedFBList, mNext, before)
      <3>1. UNCHANGED <<mTimedFBList, mNext, mTimeOut>> BY <2>3 DEF RemoveTimedFB
      <3> QED BY <1>1, <3>1
    <2> QED BY <2>1, <2>2, <2>3
  <1> QED BY <1>2 DEF EntriesTyped

\* triggerTimedFB leaves links to blocks, and no more events than the event list takes.
LEMMA TriggerTyped ==
  ASSUME EntriesTyped, NEW f \in FB, NEW head \in FB \cup {NoFB}, CanTrigger(f, head),
         TriggerTimedFB(f, head), pending \in Seq(FB), Len(pending) <= MaxPending
  PROVE  /\ mTimedFBList' \in FB \cup {NoFB} /\ mNext' \in [FB -> FB \cup {NoFB}]
         /\ mTimeOut' \in [FB -> Nat]
         /\ pending' \in Seq(FB) /\ Len(pending') <= MaxPending
  <1>1. /\ mNext \in [FB -> FB \cup {NoFB}] /\ mTimeOut \in [FB -> Nat]
        /\ mForteTime \in Nat /\ mInterval[f] \in Nat
    BY DEF EntriesTyped
  <1>2. pending' \in Seq(FB) /\ Len(pending') <= MaxPending
    <2>1. pending' = IF Len(pending) < MaxPending THEN Append(pending, f) ELSE pending
      BY DEF TriggerTimedFB, StartNewEventChain
    <2>2. Append(pending, f) \in Seq(FB) /\ Len(Append(pending, f)) = Len(pending) + 1
          /\ Len(pending) \in Nat
      OBVIOUS
    <2> QED BY <2>1, <2>2, TimerAssumption
  <1> DEFINE again == [mTimeOut EXCEPT ![f] = mForteTime + mInterval[f]]
  <1>3. CASE f \in Periodic
    <2> DEFINE added == AddTimedFBEntry(f, head, mNext, again)
    <2>1. mTimeOut' = again /\ mTimedFBList' = added.head /\ mNext' = added.next
      BY <1>3 DEF TriggerTimedFB
    <2>2. again \in [FB -> Nat] BY <1>1
    <2>3. CanAdd(f, head, mNext, again) BY <1>3 DEF CanTrigger
    <2> HIDE DEF again
    <2>4. added.head \in FB \cup {NoFB} /\ added.next \in [FB -> FB \cup {NoFB}]
      BY <1>1, <2>3, AddTyped
    <2> HIDE DEF added
    <2> QED BY <1>2, <2>1, <2>2, <2>4
  <1>4. CASE f \notin Periodic
    <2>1. /\ mTimeOut' = [mTimeOut EXCEPT ![f] = 0] /\ mTimedFBList' = head
          /\ mNext' = [mNext EXCEPT ![f] = NoFB]
      BY <1>4 DEF TriggerTimedFB
    <2> QED BY <1>1, <1>2, <2>1
  <1> QED BY <1>3, <1>4

\* What is left of a sequence without its first element.
LEMMA TailFacts ==
  ASSUME NEW S, NEW q \in Seq(S), q # <<>>
  PROVE  /\ Head(q) \in S /\ Tail(q) \in Seq(S) /\ Len(Tail(q)) = Len(q) - 1 /\ Len(q) \in Nat
         /\ (Len(q) # 1 => Tail(q) # <<>>)
         /\ \A i \in 1 .. Len(Tail(q)) : Tail(q)[i] = q[i + 1]
  <1>1. /\ Head(q) \in S /\ Tail(q) \in Seq(S) /\ Len(Tail(q)) = Len(q) - 1
        /\ \A i \in 1 .. Len(Tail(q)) : Tail(q)[i] = q[i + 1]
    BY HeadTailProperties
  <1>2. Len(q) \in Nat OBVIOUS
  <1>3. Tail(q) = <<>> => Len(Tail(q)) = 0 BY <1>1, EmptySeq
  <1> QED BY <1>1, <1>2, <1>3

\* The types of the state of the blocks.
BlockTyped ==
  /\ mActive \in [FB -> BOOLEAN] /\ mFBState \in [FB -> {"RUNNING", "STOPPED"}]
  /\ registering \in FB \cup {NoFB} /\ commanded \in [FB -> Nat] /\ due \in [FB -> Nat]
\* The types of the rest.  processRemoveList holds its lock while it has a block to remove,
\* and the time stays within its bound.
TickTyped ==
  /\ tick \in {"idle", "begin", "remove", "timed", "add"}
  /\ mRemoveFBList \in Seq(FB) /\ (tick = "remove" => mRemoveFBList # <<>>)
  /\ pending \in Seq(FB) /\ Len(pending) <= MaxPending
  /\ mForteTime <= MaxTime
\* The inductive invariant behind TypeOK.
TypeInv == EntriesTyped /\ BlockTyped /\ TickTyped

\* It implies the type invariant, ...
LEMMA TypesHold == TypeInv => TypeOK
  BY DEF TypeInv, EntriesTyped, BlockTyped, TickTyped, TypeOK, TimerTypeOK

\* ... holds initially, ...
LEMMA TypeInit == Init => TypeInv
  <1> SUFFICES ASSUME Init PROVE TypeInv OBVIOUS
  <1>1. EntriesTyped BY DEF Init, TimerInit, EntriesTyped
  <1>2. BlockTyped BY TimerAssumption DEF Init, BlockTyped, Never
  <1>3. TickTyped
    <2>1. <<>> \in Seq(FB) /\ Len(<<>>) = 0 OBVIOUS
    <2> QED BY <2>1, TimerAssumption DEF Init, TimerInit, TickTyped
  <1> QED BY <1>1, <1>2, <1>3 DEF TypeInv

\* ... is kept by nextTick: checking and processing the remove list, the timed list and the
\* add list, ...
LEMMA TypeServe ==
  ASSUME TypeInv, ServeTick, UNCHANGED <<fbVars, history>>
  PROVE  TypeInv'
  <1>0. EntriesTyped /\ BlockTyped /\ TickTyped BY DEF TypeInv
  <1>1. BlockTyped' BY <1>0 DEF BlockTyped, fbVars, history
  <1>2. CASE CheckRemoveList
    <2>1. /\ UNCHANGED <<mForteTime, mTimedFBList, mAddFBList, mRemoveFBList, mTimeOut, mInterval,
                         mNext, pending>>
          /\ tick' = IF mRemoveFBList # <<>> THEN "remove" ELSE "timed"
      BY <1>2 DEF CheckRemoveList, entryVars
    <2>2. EntriesTyped' BY <1>0, <2>1 DEF EntriesTyped
    <2>3. TickTyped' BY <1>0, <2>1 DEF TickTyped
    <2> QED BY <1>1, <2>2, <2>3 DEF TypeInv
  <1>3. CASE ProcessRemoveList
    <2>1. /\ UNCHANGED <<mForteTime, mAddFBList, mInterval, pending>> /\ tick = "remove"
          /\ RemoveTimedFB(Head(mRemoveFBList)) /\ mRemoveFBList' = Tail(mRemoveFBList)
          /\ tick' = IF Len(mRemoveFBList) = 1 THEN "timed" ELSE "remove"
      BY <1>3 DEF ProcessRemoveList
    <2>2. mRemoveFBList \in Seq(FB) /\ mRemoveFBList # <<>> BY <1>0, <2>1 DEF TickTyped
    <2>3. /\ Head(mRemoveFBList) \in FB /\ Tail(mRemoveFBList) \in Seq(FB)
          /\ Len(Tail(mRemoveFBList)) = Len(mRemoveFBList) - 1 /\ Len(mRemoveFBList) \in Nat
          /\ (Len(mRemoveFBList) # 1 => Tail(mRemoveFBList) # <<>>)
      BY <2>2, TailFacts
    <2>4. EntriesTyped' BY <1>0, <2>1, <2>3, RemoveTyped
    <2>5. TickTyped' BY <1>0, <2>1, <2>3 DEF TickTyped
    <2> QED BY <1>1, <2>4, <2>5 DEF TypeInv
  <1>4. CASE ProcessTimedFBList
    <2>1. /\ UNCHANGED <<mForteTime, mAddFBList, mRemoveFBList, mInterval>>
          /\ \/ /\ mTimedFBList # NoFB /\ CanTrigger(mTimedFBList, mNext[mTimedFBList])
                /\ TriggerTimedFB(mTimedFBList, mNext[mTimedFBList]) /\ UNCHANGED tick
             \/ UNCHANGED <<mTimedFBList, mNext, mTimeOut, pending>> /\ tick' = "add"
      BY <1>4 DEF ProcessTimedFBList
    <2>2. /\ mTimedFBList' \in FB \cup {NoFB} /\ mNext' \in [FB -> FB \cup {NoFB}]
          /\ mTimeOut' \in [FB -> Nat] /\ pending' \in Seq(FB) /\ Len(pending') <= MaxPending
          /\ tick' \in {"idle", "begin", "remove", "timed", "add"} /\ (tick' = "remove" => tick = "remove")
      <3>1. CASE UNCHANGED <<mTimedFBList, mNext, mTimeOut, pending>> /\ tick' = "add"
        BY <1>0, <3>1 DEF EntriesTyped, TickTyped
      <3>2. CASE /\ mTimedFBList # NoFB /\ CanTrigger(mTimedFBList, mNext[mTimedFBList])
                 /\ TriggerTimedFB(mTimedFBList, mNext[mTimedFBList]) /\ UNCHANGED tick
        <4>1. mTimedFBList \in FB /\ mNext[mTimedFBList] \in FB \cup {NoFB}
          BY <1>0, <3>2 DEF EntriesTyped
        <4> QED BY <1>0, <3>2, <4>1, TriggerTyped DEF TickTyped
      <3> QED BY <2>1, <3>1, <3>2
    <2>3. EntriesTyped' BY <1>0, <2>1, <2>2 DEF EntriesTyped
    <2>4. TickTyped' BY <1>0, <2>1, <2>2 DEF TickTyped
    <2> QED BY <1>1, <2>3, <2>4 DEF TypeInv
  <1>5. CASE ProcessAddList
    <2> DEFINE added == AddTimedFBEntry(mAddFBList, mTimedFBList, mNext, mTimeOut)
    <2>1. /\ UNCHANGED <<mForteTime, mRemoveFBList, mInterval>>
          /\ \/ /\ mAddFBList = NoFB /\ tick' = "idle"
                /\ UNCHANGED <<mTimedFBList, mAddFBList, mNext, mTimeOut, pending>>
             \/ /\ mAddFBList # NoFB /\ mAddFBList' = mNext[mAddFBList] /\ UNCHANGED tick
                /\ \/ /\ CanTrigger(mAddFBList, mTimedFBList)
                      /\ TriggerTimedFB(mAddFBList, mTimedFBList)
                   \/ /\ CanAdd(mAddFBList, mTimedFBList, mNext, mTimeOut)
                      /\ mTimedFBList' = added.head /\ mNext' = added.next
                      /\ UNCHANGED <<mTimeOut, pending>>
      BY <1>5 DEF ProcessAddList
    <2> HIDE DEF added
    <2>2. /\ mTimedFBList' \in FB \cup {NoFB} /\ mNext' \in [FB -> FB \cup {NoFB}]
          /\ mTimeOut' \in [FB -> Nat] /\ pending' \in Seq(FB) /\ Len(pending') <= MaxPending
          /\ mAddFBList' \in FB \cup {NoFB}
          /\ tick' \in {"idle", "begin", "remove", "timed", "add"} /\ (tick' = "remove" => tick = "remove")
      <3>1. CASE mAddFBList = NoFB BY <1>0, <2>1, <3>1 DEF EntriesTyped, TickTyped
      <3>2. CASE mAddFBList # NoFB
        <4>1. /\ mAddFBList \in FB /\ mNext \in [FB -> FB \cup {NoFB}]
              /\ mTimedFBList \in FB \cup {NoFB} /\ mTimeOut \in [FB -> Nat]
          BY <1>0, <3>2 DEF EntriesTyped
        <4>2. mAddFBList' \in FB \cup {NoFB} /\ UNCHANGED tick BY <2>1, <3>2, <4>1
        <4>3. CASE /\ CanTrigger(mAddFBList, mTimedFBList)
                   /\ TriggerTimedFB(mAddFBList, mTimedFBList)
          BY <1>0, <4>1, <4>2, <4>3, TriggerTyped DEF TickTyped
        <4>4. CASE /\ CanAdd(mAddFBList, mTimedFBList, mNext, mTimeOut)
                   /\ mTimedFBList' = added.head /\ mNext' = added.next
                   /\ UNCHANGED <<mTimeOut, pending>>
          <5>1. added.head \in FB \cup {NoFB} /\ added.next \in [FB -> FB \cup {NoFB}]
            BY <4>1, <4>4, AddTyped DEF added
          <5> QED BY <1>0, <4>1, <4>2, <4>4, <5>1 DEF TickTyped
        <4> QED BY <2>1, <3>2, <4>3, <4>4
      <3> QED BY <3>1, <3>2
    <2>3. EntriesTyped' BY <1>0, <2>1, <2>2 DEF EntriesTyped
    <2>4. TickTyped' BY <1>0, <2>1, <2>2 DEF TickTyped
    <2> QED BY <1>1, <2>3, <2>4 DEF TypeInv
  <1> QED BY <1>2, <1>3, <1>4, <1>5 DEF ServeTick

\* What a START changes before the push.
LEMMA BeginFacts ==
  ASSUME TypeInv, NEW f \in FB, NEW dt \in Delays, BeginRegister(f, dt)
  PROVE  /\ mInterval' \in [FB -> Nat] /\ mTimeOut' \in [FB -> Nat] /\ due' \in [FB -> Nat]
         /\ registering' = f /\ mInterval'[f] >= 1 /\ due'[f] = mTimeOut'[f]
         /\ \A g \in FB : g # f => /\ mInterval'[g] = mInterval[g] /\ mTimeOut'[g] = mTimeOut[g]
                                   /\ due'[g] = due[g]
  <1> DEFINE interval == IF dt = 0 THEN 1 ELSE dt
  <1>1. interval \in Nat /\ interval >= 1 BY KindAssumption
  <1>2. /\ mInterval' = [mInterval EXCEPT ![f] = interval]
        /\ mTimeOut' = [mTimeOut EXCEPT ![f] = mForteTime + interval]
        /\ registering' = f /\ due' = [due EXCEPT ![f] = mTimeOut'[f]]
    BY DEF BeginRegister, SetTimeOut
  <1> HIDE DEF interval
  <1>3. /\ mInterval \in [FB -> Nat] /\ mTimeOut \in [FB -> Nat] /\ due \in [FB -> Nat]
        /\ mForteTime \in Nat
    BY DEF TypeInv, EntriesTyped, BlockTyped
  <1>4. mForteTime + interval \in Nat BY <1>1, <1>3
  <1>5. mInterval' \in [FB -> Nat] /\ mTimeOut' \in [FB -> Nat] BY <1>1, <1>2, <1>3, <1>4
  <1>6. mTimeOut'[f] \in Nat BY <1>5
  <1> QED BY <1>1, <1>2, <1>3, <1>5, <1>6

\* unregisterTimedFB(f) orders the removal of f and of no other block, outside
\* processRemoveList.
LEMMA AppendRemoved ==
  ASSUME TypeInv, NEW f \in FB, UnregisterTimedFB(f)
  PROVE  /\ tick # "remove" /\ mRemoveFBList' \in Seq(FB)
         /\ \A g \in FB : ToBeRemoved(g)' <=> ToBeRemoved(g) \/ g = f
  <1>1. mRemoveFBList \in Seq(FB) BY DEF TypeInv, TickTyped
  <1>2. /\ tick # "remove" /\ mRemoveFBList' = Append(mRemoveFBList, f)
    BY DEF UnregisterTimedFB, RemoveListLocked
  <1>3. /\ mRemoveFBList' \in Seq(FB) /\ Len(mRemoveFBList') = Len(mRemoveFBList) + 1
        /\ Len(mRemoveFBList) \in Nat
        /\ \A i \in 1 .. Len(mRemoveFBList) : mRemoveFBList'[i] = mRemoveFBList[i]
        /\ mRemoveFBList'[Len(mRemoveFBList) + 1] = f
    BY <1>1, <1>2, AppendProperties, LenProperties
  <1>4. DOMAIN mRemoveFBList = 1 .. Len(mRemoveFBList)
        /\ DOMAIN mRemoveFBList' = 1 .. Len(mRemoveFBList) + 1
    BY <1>1, <1>3
  <1>5. ASSUME NEW g \in FB PROVE ToBeRemoved(g)' <=> ToBeRemoved(g) \/ g = f
    <2>1. ASSUME ToBeRemoved(g)' PROVE ToBeRemoved(g) \/ g = f
      <3>1. PICK i \in 1 .. Len(mRemoveFBList) + 1 : mRemoveFBList'[i] = g
        BY <1>4, <2>1 DEF ToBeRemoved
      <3>2. i \in 1 .. Len(mRemoveFBList) \/ i = Len(mRemoveFBList) + 1 BY <1>3
      <3> QED BY <1>3, <1>4, <3>1, <3>2 DEF ToBeRemoved
    <2>2. ASSUME ToBeRemoved(g) PROVE ToBeRemoved(g)'
      <3>1. PICK i \in 1 .. Len(mRemoveFBList) : mRemoveFBList[i] = g
        BY <1>4, <2>2 DEF ToBeRemoved
      <3>2. i \in 1 .. Len(mRemoveFBList) + 1 BY <1>3
      <3> QED BY <1>3, <1>4, <3>1, <3>2 DEF ToBeRemoved
    <2>3. Len(mRemoveFBList) + 1 \in 1 .. Len(mRemoveFBList) + 1 BY <1>3
    <2>4. ASSUME g = f PROVE ToBeRemoved(g)' BY <1>3, <1>4, <2>3, <2>4 DEF ToBeRemoved
    <2> QED BY <2>1, <2>2, <2>4
  <1> QED BY <1>2, <1>3, <1>5

\* A command is noted for its block and for no other.
LEMMA CommandTyped ==
  ASSUME TypeInv, NEW f \in FB, Command(f)
  PROVE  /\ commanded' \in [FB -> Nat] /\ commanded'[f] = mForteTime
         /\ \A g \in FB : g # f => commanded'[g] = commanded[g]
  BY DEF TypeInv, BlockTyped, EntriesTyped, Command

\* ... by a START, ...
LEMMA TypeStart ==
  ASSUME TypeInv, NEW f \in FB, NEW dt \in Delays, StartEvent(f, dt) \/ RestartEvent(f, dt)
  PROVE  TypeInv'
  <1>1. /\ UNCHANGED <<mForteTime, mTimedFBList, mAddFBList, mNext, tick, pending, mActive, mFBState>>
        /\ BeginRegister(f, dt) /\ Command(f)
        /\ UNCHANGED mRemoveFBList \/ UnregisterTimedFB(f)
    BY DEF StartEvent, RestartEvent
  <1>2. EntriesTyped' BY <1>1, BeginFacts DEF TypeInv, EntriesTyped
  <1>3. BlockTyped' BY <1>1, BeginFacts, CommandTyped DEF TypeInv, BlockTyped
  <1>4. TickTyped' BY <1>1, AppendRemoved DEF TypeInv, TickTyped
  <1> QED BY <1>2, <1>3, <1>4 DEF TypeInv

\* ... by the end of registerTimedFB, ...
LEMMA TypeEndRegister ==
  ASSUME TypeInv, EndRegister
  PROVE  TypeInv'
  <1>1. /\ UNCHANGED <<mForteTime, mTimedFBList, mRemoveFBList, mTimeOut, mInterval,
                       tick, pending, mFBState, due>>
        /\ registering \in FB /\ registering' = NoFB /\ Command(registering)
        /\ mNext' = [mNext EXCEPT ![registering] = mAddFBList] /\ mAddFBList' = registering
        /\ mActive' = [mActive EXCEPT ![registering] = TRUE]
    BY DEF EndRegister, PushOnAddList, TypeInv, BlockTyped
  <1>2. EntriesTyped' BY <1>1 DEF TypeInv, EntriesTyped
  <1>3. BlockTyped' BY <1>1, CommandTyped DEF TypeInv, BlockTyped
  <1>4. TickTyped' BY <1>1 DEF TypeInv, TickTyped
  <1> QED BY <1>2, <1>3, <1>4 DEF TypeInv

\* ... by a STOP and by a management Stop or Start, ...
LEMMA TypeCommand ==
  ASSUME TypeInv, NEW f \in FB, StopEvent(f) \/ ManagementStop(f) \/ ManagementStart(f)
  PROVE  TypeInv'
  <1>1. /\ UNCHANGED <<mForteTime, mTimedFBList, mAddFBList, mTimeOut, mInterval, mNext, tick,
                       pending, registering, due>>
        /\ Command(f)
        /\ UNCHANGED mRemoveFBList \/ UnregisterTimedFB(f)
        /\ mActive' = mActive \/ mActive' = [mActive EXCEPT ![f] = FALSE]
        /\ \/ mFBState' = mFBState \/ mFBState' = [mFBState EXCEPT ![f] = "STOPPED"]
           \/ mFBState' = [mFBState EXCEPT ![f] = "RUNNING"]
    BY DEF StopEvent, ManagementStop, ManagementStart, Deactivate, entryVars, timerVars
  <1>2. EntriesTyped' BY <1>1 DEF TypeInv, EntriesTyped
  <1>3. BlockTyped'
    <2>1. mActive' \in [FB -> BOOLEAN] BY <1>1 DEF TypeInv, BlockTyped
    <2>2. mFBState' \in [FB -> {"RUNNING", "STOPPED"}] BY <1>1 DEF TypeInv, BlockTyped
    <2> QED BY <1>1, <2>1, <2>2, CommandTyped DEF TypeInv, BlockTyped
  <1>4. TickTyped' BY <1>1, AppendRemoved DEF TypeInv, TickTyped
  <1> QED BY <1>2, <1>3, <1>4 DEF TypeInv

\* ... by an external event that is executed or ignored, ...
LEMMA TypeEvent ==
  ASSUME TypeInv, NEW f \in FB, ExternalEvent(f) \/ IgnoredEvent(f)
  PROVE  TypeInv'
  <1>1. /\ UNCHANGED <<mForteTime, mTimedFBList, mAddFBList, mRemoveFBList, mTimeOut, mInterval,
                       mNext, tick, mFBState, registering, commanded>>
        /\ pending # <<>> /\ pending' = Tail(pending)
        /\ mActive' = mActive \/ mActive' = [mActive EXCEPT ![f] = FALSE]
        /\ due' = due \/ due' = [due EXCEPT ![f] = @ + mInterval[f]]
    BY DEF ExternalEvent, IgnoredEvent, SendsEO, Expired, entryVars, fbVars, history
  <1>2. EntriesTyped' BY <1>1 DEF TypeInv, EntriesTyped
  <1>3. BlockTyped'
    <2>1. mActive' \in [FB -> BOOLEAN] BY <1>1 DEF TypeInv, BlockTyped
    <2>2. mInterval[f] \in Nat /\ due[f] \in Nat BY DEF TypeInv, EntriesTyped, BlockTyped
    <2>3. due' \in [FB -> Nat] BY <1>1, <2>2 DEF TypeInv, BlockTyped
    <2> QED BY <1>1, <2>1, <2>3 DEF TypeInv, BlockTyped
  <1>4. TickTyped'
    <2>1. Tail(pending) \in Seq(FB) /\ Len(Tail(pending)) <= MaxPending
      BY <1>1, TailFacts, TimerAssumption DEF TypeInv, TickTyped
    <2> QED BY <1>1, <2>1 DEF TypeInv, TickTyped
  <1> QED BY <1>2, <1>3, <1>4 DEF TypeInv

\* ... by the advance of the time, ...
LEMMA TypeTick ==
  ASSUME TypeInv, Tick
  PROVE  TypeInv'
  <1>1. /\ UNCHANGED <<mTimedFBList, mAddFBList, mRemoveFBList, mTimeOut, mInterval, mNext, pending,
                       fbVars, history>>
        /\ mForteTime < MaxTime /\ mForteTime' = mForteTime + 1 /\ tick' = "begin"
    BY DEF Tick, NextTick, entryVars
  <1>2. EntriesTyped' BY <1>1 DEF TypeInv, EntriesTyped
  <1>3. BlockTyped' BY <1>1 DEF TypeInv, BlockTyped, fbVars, history
  <1>4. TickTyped' BY <1>1, TimerAssumption DEF TypeInv, TickTyped, EntriesTyped
  <1> QED BY <1>2, <1>3, <1>4 DEF TypeInv

\* ... and so by every step.
LEMMA TypeStep == TypeInv /\ [Next]_vars => TypeInv'
  <1> SUFFICES ASSUME TypeInv, [Next]_vars PROVE TypeInv' OBVIOUS
  <1>1. CASE Tick BY <1>1, TypeTick
  <1>2. CASE ServeTick /\ UNCHANGED <<fbVars, history>> BY <1>2, TypeServe
  <1>3. CASE EndRegister BY <1>3, TypeEndRegister
  <1>4. ASSUME NEW f \in FB, NEW dt \in Delays, StartEvent(f, dt) \/ RestartEvent(f, dt)
        PROVE TypeInv'
    BY <1>4, TypeStart
  <1>5. ASSUME NEW f \in FB, StopEvent(f) \/ ManagementStop(f) \/ ManagementStart(f)
        PROVE TypeInv'
    BY <1>5, TypeCommand
  <1>6. ASSUME NEW f \in FB, ExternalEvent(f) \/ IgnoredEvent(f) PROVE TypeInv'
    BY <1>6, TypeEvent
  <1>7. CASE UNCHANGED vars
    BY <1>7 DEF vars, TypeInv, EntriesTyped, BlockTyped, TickTyped
  <1> QED BY <1>1, <1>2, <1>3, <1>4, <1>5, <1>6, <1>7 DEF Next

\* The lists' heads and links, the vector of blocks to remove, the time-outs and intervals of
\* timerha.cpp and the blocks' mActive stay well typed, however inconsiderate the application:
\* a link damaged by an entry that is on two lists still leads to a block or to nothing.
THEOREM TypeCorrect == Spec => []TypeOK
  <1>1. TypeInv => TypeOK BY TypesHold
  <1> QED BY <1>1, TypeInit, TypeStep, PTL DEF Spec
-----------------------------------------------------------------------------
(* The two lists, and what each operation makes of them.                   *)

\* t is the timed list, in order, a the add list, and they share no entry.
TwoLists(t, n, a, m) ==
  /\ IsList(t, n, mTimedFBList, mNext) /\ SortedBy(t, n, mTimeOut)
  /\ IsList(a, m, mAddFBList, mNext)
  /\ Members(t, n) \cap Members(a, m) = {}
\* The two lists of the timer handler are lists.
ListInv == \E t, n, a, m : TwoLists(t, n, a, m)

\* TimedEntries and AddEntries are then the entries of the two, ...
LEMMA ListsAre ==
  ASSUME NEW t, NEW n, NEW a, NEW m, TwoLists(t, n, a, m)
  PROVE  /\ Ends(mTimedFBList, mNext) /\ Ends(mAddFBList, mNext)
         /\ TimedEntries = Members(t, n) /\ AddEntries = Members(a, m)
         /\ Members(t, n) \subseteq FB /\ Members(a, m) \subseteq FB
         /\ Members(t, n) \cap Members(a, m) = {}
         /\ n \in Nat /\ m \in Nat /\ t \in [1 .. n -> FB] /\ a \in [1 .. m -> FB]
  <1>1. IsList(t, n, mTimedFBList, mNext) /\ IsList(a, m, mAddFBList, mNext)
        /\ Members(t, n) \cap Members(a, m) = {}
    BY DEF TwoLists
  <1>2. Ends(mTimedFBList, mNext) /\ TimedEntries = Members(t, n)
    BY <1>1, ListFacts DEF TimedEntries
  <1>3. Ends(mAddFBList, mNext) /\ AddEntries = Members(a, m)
    BY <1>1, ListFacts DEF AddEntries
  <1>4. n \in Nat /\ m \in Nat /\ t \in [1 .. n -> FB] /\ a \in [1 .. m -> FB]
    BY <1>1 DEF IsList
  <1>5. Members(t, n) \subseteq FB /\ Members(a, m) \subseteq FB BY <1>4 DEF Members
  <1> QED BY <1>1, <1>2, <1>3, <1>4, <1>5

\* ... after a step that leaves two lists as well.
LEMMA ListsAreNow ==
  ASSUME NEW t, NEW n, NEW a, NEW m, TwoLists(t, n, a, m)'
  PROVE  ListInv' /\ TimedEntries' = Members(t, n) /\ AddEntries' = Members(a, m)
  <1>1. /\ IsList(t, n, mTimedFBList', mNext') /\ IsList(a, m, mAddFBList', mNext')
    BY DEF TwoLists
  <1>2. Entries(mTimedFBList', mNext') = Members(t, n) BY <1>1, ListFacts
  <1>3. Entries(mAddFBList', mNext') = Members(a, m) BY <1>1, ListFacts
  <1>4. TimedEntries' = Members(t, n) BY <1>2 DEF TimedEntries
  <1>5. AddEntries' = Members(a, m) BY <1>3 DEF AddEntries
  <1>6. ListInv' BY DEF ListInv
  <1> QED BY <1>4, <1>5, <1>6

\* What the head pointers tell of two sound lists: null means empty, and the head of the timed
\* list is the entry that is due first.
LEMMA HeadFacts ==
  ASSUME EntriesTyped, ListInv
  PROVE  /\ TimedEntries \subseteq FB /\ AddEntries \subseteq FB
         /\ TimedEntries \cap AddEntries = {}
         /\ mTimedFBList = NoFB => TimedEntries = {}
         /\ mAddFBList = NoFB => AddEntries = {}
         /\ mAddFBList # NoFB => mAddFBList \in AddEntries
         /\ mTimedFBList # NoFB => mTimedFBList \in TimedEntries
         /\ \A f \in TimedEntries : /\ mTimedFBList # NoFB
                                    /\ mTimeOut[mTimedFBList] <= mTimeOut[f]
                                    /\ mNext[f] # NoFB => mTimeOut[f] <= mTimeOut[mNext[f]]
  <1>1. PICK t, n, a, m : TwoLists(t, n, a, m) BY DEF ListInv
  <1>2. /\ TimedEntries = Members(t, n) /\ AddEntries = Members(a, m)
        /\ Members(t, n) \subseteq FB /\ Members(a, m) \subseteq FB
        /\ Members(t, n) \cap Members(a, m) = {}
        /\ n \in Nat /\ m \in Nat /\ t \in [1 .. n -> FB] /\ a \in [1 .. m -> FB]
    BY <1>1, ListsAre
  <1>3. /\ mTimedFBList = IF n = 0 THEN NoFB ELSE t[1]
        /\ \A i \in 1 .. n : mNext[t[i]] = IF i = n THEN NoFB ELSE t[i + 1]
        /\ mAddFBList = IF m = 0 THEN NoFB ELSE a[1]
        /\ SortedBy(t, n, mTimeOut)
    BY <1>1 DEF TwoLists, IsList
  <1>4. CASE n = 0
    <2>1. 1 .. n = {} BY <1>4
    <2>2. Members(t, n) = {} BY <2>1 DEF Members
    <2>3. mTimedFBList = NoFB BY <1>3, <1>4
    <2>4. /\ m = 0 => 1 .. m = {} /\ mAddFBList = NoFB
          /\ m # 0 => 1 \in 1 .. m /\ mAddFBList = a[1]
      BY <1>2, <1>3
    <2>5. /\ m = 0 => Members(a, m) = {}
          /\ m # 0 => mAddFBList \in Members(a, m) /\ mAddFBList # NoFB
      BY <1>2, <2>4, NoFBAssumption DEF Members
    <2> QED BY <1>2, <2>2, <2>3, <2>4, <2>5
  <1>5. CASE n # 0
    <2>1. 1 \in 1 .. n /\ mTimedFBList = t[1] BY <1>2, <1>3, <1>5
    <2>2. mTimedFBList \in Members(t, n) /\ mTimedFBList # NoFB
      BY <1>2, <2>1, NoFBAssumption DEF Members
    <2>3. ASSUME NEW f \in Members(t, n)
          PROVE  /\ mTimeOut[mTimedFBList] <= mTimeOut[f]
                 /\ mNext[f] # NoFB => mTimeOut[f] <= mTimeOut[mNext[f]]
      <3>1. PICK i \in 1 .. n : f = t[i] BY DEF Members
      <3>2. mTimeOut[f] \in Nat BY <1>2, <3>1 DEF EntriesTyped
      <3>3. mTimeOut[mTimedFBList] <= mTimeOut[f]
        <4>1. CASE i = 1 BY <2>1, <3>1, <3>2, <4>1
        <4>2. CASE i # 1
          <5>1. 1 < i BY <1>2, <4>2
          <5> QED BY <1>3, <2>1, <3>1, <5>1 DEF SortedBy
        <4> QED BY <4>1, <4>2
      <3>4. ASSUME mNext[f] # NoFB PROVE mTimeOut[f] <= mTimeOut[mNext[f]]
        <4>1. i # n /\ mNext[f] = t[i + 1] BY <1>3, <3>1, <3>4
        <4>2. i + 1 \in 1 .. n /\ i < i + 1 BY <1>2, <4>1
        <4> QED BY <1>3, <3>1, <4>1, <4>2 DEF SortedBy
      <3> QED BY <3>3, <3>4
    <2>4. /\ m = 0 => 1 .. m = {} /\ mAddFBList = NoFB
          /\ m # 0 => 1 \in 1 .. m /\ mAddFBList = a[1]
      BY <1>2, <1>3
    <2>5. /\ m = 0 => Members(a, m) = {}
          /\ m # 0 => mAddFBList \in Members(a, m) /\ mAddFBList # NoFB
      BY <1>2, <2>4, NoFBAssumption DEF Members
    <2> QED BY <1>2, <2>2, <2>3, <2>4, <2>5
  <1> QED BY <1>4, <1>5

\* removeTimedFB(f) takes f from the timed list and leaves the add list alone.
LEMMA RemoveEffect ==
  ASSUME EntriesTyped, ListInv, NEW f \in FB, RemoveTimedFB(f), UNCHANGED mAddFBList
  PROVE  /\ ListInv' /\ TimedEntries' = TimedEntries \ {f} /\ AddEntries' = AddEntries
         /\ \A g \in FB : g # f => mTimeOut'[g] = mTimeOut[g]
  <1>1. PICK t, n, a, m : TwoLists(t, n, a, m) BY DEF ListInv
  <1>2. /\ TimedEntries = Members(t, n) /\ AddEntries = Members(a, m)
        /\ Members(t, n) \subseteq FB /\ Members(a, m) \subseteq FB
        /\ Members(t, n) \cap Members(a, m) = {}
    BY <1>1, ListsAre
  <1>3. /\ IsList(t, n, mTimedFBList, mNext) /\ SortedBy(t, n, mTimeOut)
        /\ IsList(a, m, mAddFBList, mNext)
    BY <1>1 DEF TwoLists
  <1>4. /\ \E r, k : /\ IsList(r, k, mTimedFBList', mNext')
                     /\ Members(r, k) = Members(t, n) \ {f}
                     /\ SortedBy(r, k, mTimeOut')
        /\ \A g \in FB \ Members(t, n) : mNext'[g] = mNext[g]
        /\ \A g \in FB : g # f => mTimeOut'[g] = mTimeOut[g]
    BY <1>3, RemoveFacts
  <1>5. PICK r, k : /\ IsList(r, k, mTimedFBList', mNext')
                    /\ Members(r, k) = Members(t, n) \ {f}
                    /\ SortedBy(r, k, mTimeOut')
    BY <1>4
  <1>6. IsList(a, m, mAddFBList', mNext')
    <2>1. \A g \in Members(a, m) : mNext'[g] = mNext[g] BY <1>2, <1>4
    <2>2. IsList(a, m, mAddFBList, mNext') BY <1>3, <2>1, SameList
    <2> QED BY <2>2
  <1>7. TwoLists(r, k, a, m)' BY <1>2, <1>5, <1>6 DEF TwoLists
  <1>8. ListInv' /\ TimedEntries' = Members(r, k) /\ AddEntries' = Members(a, m)
    BY <1>7, ListsAreNow
  <1> QED BY <1>2, <1>4, <1>5, <1>8

\* Firing the head in processTimedFBList leaves a periodic block on the timed list and takes
\* any other from it.
LEMMA FireTimedEffect ==
  ASSUME EntriesTyped, ListInv, mTimedFBList # NoFB, UNCHANGED mAddFBList,
         TriggerTimedFB(mTimedFBList, mNext[mTimedFBList])
  PROVE  /\ ListInv' /\ AddEntries' = AddEntries
         /\ TimedEntries' = IF mTimedFBList \in Periodic THEN TimedEntries
                            ELSE TimedEntries \ {mTimedFBList}
  <1> DEFINE f == mTimedFBList
  <1>1. PICK t, n, a, m : TwoLists(t, n, a, m) BY DEF ListInv
  <1>2. /\ TimedEntries = Members(t, n) /\ AddEntries = Members(a, m)
        /\ Members(t, n) \subseteq FB /\ Members(a, m) \subseteq FB
        /\ Members(t, n) \cap Members(a, m) = {}
        /\ n \in Nat
    BY <1>1, ListsAre
  <1>3. /\ IsList(t, n, mTimedFBList, mNext) /\ SortedBy(t, n, mTimeOut)
        /\ IsList(a, m, mAddFBList, mNext)
    BY <1>1 DEF TwoLists
  <1>4. f \in TimedEntries /\ f \in FB BY <1>2, HeadFacts
  <1> DEFINE r == Cut(t, n, 1)
  <1>5. 1 \in 1 .. n /\ f = t[1]
    <2>1. f = IF n = 0 THEN NoFB ELSE t[1] BY <1>3 DEF IsList
    <2>2. n # 0 BY <2>1
    <2> QED BY <1>2, <2>1, <2>2
  <1>6. IsList(r, n - 1, mNext[f], mNext) /\ Members(r, n - 1) = Members(t, n) \ {f}
    <2>1. ~(1 > 1) /\ \A i \in 1 .. n : mNext[t[i]] = mNext[t[i]] OBVIOUS
    <2> QED BY <1>3, <1>5, <2>1, CutIsList
  <1>7. SortedBy(r, n - 1, mTimeOut) BY <1>2, <1>3, <1>5, CutIsSorted
  <1> HIDE DEF r
  <1>8. f \notin Members(r, n - 1) BY <1>6
  <1>9. /\ \E s, k : /\ IsList(s, k, mTimedFBList', mNext')
                     /\ Members(s, k) = IF f \in Periodic THEN Members(r, n - 1) \cup {f}
                                        ELSE Members(r, n - 1)
                     /\ SortedBy(s, k, mTimeOut')
        /\ \A g \in FB \ (Members(r, n - 1) \cup {f}) : mNext'[g] = mNext[g]
    BY <1>4, <1>6, <1>7, <1>8, TriggerFacts
  <1>10. PICK s, k : /\ IsList(s, k, mTimedFBList', mNext')
                     /\ Members(s, k) = IF f \in Periodic THEN Members(r, n - 1) \cup {f}
                                        ELSE Members(r, n - 1)
                     /\ SortedBy(s, k, mTimeOut')
    BY <1>9
  <1>11. Members(s, k) = IF f \in Periodic THEN Members(t, n) ELSE Members(t, n) \ {f}
    BY <1>2, <1>4, <1>6, <1>10
  <1>12. IsList(a, m, mAddFBList', mNext')
    <2>1. \A g \in Members(a, m) : mNext'[g] = mNext[g] BY <1>2, <1>4, <1>6, <1>9
    <2>2. IsList(a, m, mAddFBList, mNext') BY <1>3, <2>1, SameList
    <2> QED BY <2>2
  <1>13. Members(s, k) \cap Members(a, m) = {} BY <1>2, <1>11
  <1>14. TwoLists(s, k, a, m)' BY <1>10, <1>12, <1>13 DEF TwoLists
  <1>15. ListInv' /\ TimedEntries' = Members(s, k) /\ AddEntries' = Members(a, m)
    BY <1>14, ListsAreNow
  <1> QED BY <1>2, <1>11, <1>15

\* What is left of the add list without its head.
LEMMA RestOfAddList ==
  ASSUME EntriesTyped, NEW t, NEW n, NEW a, NEW m, TwoLists(t, n, a, m), mAddFBList # NoFB
  PROVE  \E r, k : /\ IsList(r, k, mNext[mAddFBList], mNext)
                   /\ Members(r, k) = AddEntries \ {mAddFBList}
  <1> DEFINE r == Cut(a, m, 1)
  <1>1. IsList(a, m, mAddFBList, mNext) /\ AddEntries = Members(a, m) /\ m \in Nat
    <2>1. IsList(a, m, mAddFBList, mNext) BY DEF TwoLists
    <2>2. AddEntries = Members(a, m) /\ m \in Nat BY ListsAre
    <2> QED BY <2>1, <2>2
  <1>2. 1 \in 1 .. m /\ mAddFBList = a[1]
    <2>1. mAddFBList = IF m = 0 THEN NoFB ELSE a[1] BY <1>1 DEF IsList
    <2>2. m # 0 BY <2>1
    <2> QED BY <1>1, <2>1, <2>2
  <1>3. IsList(r, m - 1, mNext[mAddFBList], mNext)
        /\ Members(r, m - 1) = Members(a, m) \ {mAddFBList}
    <2>1. ~(1 > 1) /\ \A i \in 1 .. m : mNext[a[i]] = mNext[a[i]] OBVIOUS
    <2> QED BY <1>1, <1>2, <2>1, CutIsList
  <1> HIDE DEF r
  <1> QED BY <1>1, <1>3

\* Firing the head in processAddList moves a periodic block to the timed list and takes any
\* other from the lists.
LEMMA FireAddedEffect ==
  ASSUME EntriesTyped, ListInv, mAddFBList # NoFB, mAddFBList' = mNext[mAddFBList],
         TriggerTimedFB(mAddFBList, mTimedFBList)
  PROVE  /\ ListInv' /\ AddEntries' = AddEntries \ {mAddFBList}
         /\ TimedEntries' = IF mAddFBList \in Periodic THEN TimedEntries \cup {mAddFBList}
                            ELSE TimedEntries
  <1> DEFINE f == mAddFBList
  <1>1. PICK t, n, a, m : TwoLists(t, n, a, m) BY DEF ListInv
  <1>2. /\ TimedEntries = Members(t, n) /\ Members(t, n) \subseteq FB
        /\ f \in AddEntries /\ f \in FB /\ TimedEntries \cap AddEntries = {} /\ AddEntries \subseteq FB
    BY <1>1, ListsAre, HeadFacts
  <1>3. IsList(t, n, mTimedFBList, mNext) /\ SortedBy(t, n, mTimeOut)
    BY <1>1 DEF TwoLists
  <1>4. PICK r, k : /\ IsList(r, k, mNext[mAddFBList], mNext)
                    /\ Members(r, k) = AddEntries \ {mAddFBList}
    BY <1>1, RestOfAddList
  <1>5. f \notin Members(t, n) BY <1>2
  <1>6. /\ \E s, j : /\ IsList(s, j, mTimedFBList', mNext')
                     /\ Members(s, j) = IF f \in Periodic THEN Members(t, n) \cup {f}
                                        ELSE Members(t, n)
                     /\ SortedBy(s, j, mTimeOut')
        /\ \A g \in FB \ (Members(t, n) \cup {f}) : mNext'[g] = mNext[g]
    BY <1>2, <1>3, <1>5, TriggerFacts
  <1>7. PICK s, j : /\ IsList(s, j, mTimedFBList', mNext')
                    /\ Members(s, j) = IF f \in Periodic THEN Members(t, n) \cup {f}
                                       ELSE Members(t, n)
                    /\ SortedBy(s, j, mTimeOut')
    BY <1>6
  <1>8. IsList(r, k, mAddFBList', mNext')
    <2>1. \A g \in Members(r, k) : mNext'[g] = mNext[g] BY <1>2, <1>4, <1>6
    <2>2. IsList(r, k, mNext[mAddFBList], mNext') BY <1>4, <2>1, SameList
    <2> QED BY <2>2
  <1>9. Members(s, j) \cap Members(r, k) = {} BY <1>2, <1>4, <1>7
  <1>10. TwoLists(s, j, r, k)' BY <1>7, <1>8, <1>9 DEF TwoLists
  <1>11. ListInv' /\ TimedEntries' = Members(s, j) /\ AddEntries' = Members(r, k)
    BY <1>10, ListsAreNow
  <1> QED BY <1>2, <1>4, <1>7, <1>11

\* Putting the head of the add list in its place moves it to the timed list.
LEMMA PutAddedEffect ==
  ASSUME EntriesTyped, ListInv, mAddFBList # NoFB, mAddFBList' = mNext[mAddFBList],
         mTimedFBList' = AddTimedFBEntry(mAddFBList, mTimedFBList, mNext, mTimeOut).head,
         mNext' = AddTimedFBEntry(mAddFBList, mTimedFBList, mNext, mTimeOut).next,
         UNCHANGED mTimeOut
  PROVE  /\ ListInv' /\ AddEntries' = AddEntries \ {mAddFBList}
         /\ TimedEntries' = TimedEntries \cup {mAddFBList}
  <1> DEFINE f == mAddFBList
             added == AddTimedFBEntry(f, mTimedFBList, mNext, mTimeOut)
  <1>1. PICK t, n, a, m : TwoLists(t, n, a, m) BY DEF ListInv
  <1>2. /\ TimedEntries = Members(t, n) /\ Members(t, n) \subseteq FB
        /\ f \in AddEntries /\ f \in FB /\ TimedEntries \cap AddEntries = {} /\ AddEntries \subseteq FB
    BY <1>1, ListsAre, HeadFacts
  <1>3. IsList(t, n, mTimedFBList, mNext) /\ SortedBy(t, n, mTimeOut)
    BY <1>1 DEF TwoLists
  <1>4. PICK r, k : /\ IsList(r, k, mNext[mAddFBList], mNext)
                    /\ Members(r, k) = AddEntries \ {mAddFBList}
    BY <1>1, RestOfAddList
  <1>5. f \notin Members(t, n) BY <1>2
  <1>6. mNext \in [FB -> FB \cup {NoFB}] /\ mTimeOut \in [FB -> Nat] BY DEF EntriesTyped
  <1>7. /\ \E s : /\ IsList(s, n + 1, added.head, added.next)
                  /\ Members(s, n + 1) = Members(t, n) \cup {f}
                  /\ SortedBy(s, n + 1, mTimeOut)
        /\ \A g \in FB \ (Members(t, n) \cup {f}) : added.next[g] = mNext[g]
    BY <1>2, <1>3, <1>5, <1>6, AddFacts
  <1>8. mTimedFBList' = added.head /\ mNext' = added.next OBVIOUS
  <1> HIDE DEF added
  <1>9. PICK s : /\ IsList(s, n + 1, mTimedFBList', mNext')
                 /\ Members(s, n + 1) = Members(t, n) \cup {f}
                 /\ SortedBy(s, n + 1, mTimeOut')
    BY <1>7, <1>8
  <1>10. IsList(r, k, mAddFBList', mNext')
    <2>1. \A g \in Members(r, k) : mNext'[g] = mNext[g] BY <1>2, <1>4, <1>7, <1>8
    <2>2. IsList(r, k, mNext[mAddFBList], mNext') BY <1>4, <2>1, SameList
    <2> QED BY <2>2
  <1>11. Members(s, n + 1) \cap Members(r, k) = {} BY <1>2, <1>4, <1>9
  <1>12. TwoLists(s, n + 1, r, k)' BY <1>9, <1>10, <1>11 DEF TwoLists
  <1>13. ListInv' /\ TimedEntries' = Members(s, n + 1) /\ AddEntries' = Members(r, k)
    BY <1>12, ListsAreNow
  <1> QED BY <1>2, <1>4, <1>9, <1>13

\* An entry linked before the head of a list is the head of the longer list.
LEMMA PutFirst ==
  ASSUME NEW q, NEW n, NEW head, NEW next, IsList(q, n, head, next),
         NEW e \in FB, e \notin Members(q, n), NEW next2, next2[e] = head,
         \A f \in Members(q, n) : next2[f] = next[f]
  PROVE  /\ IsList(Put(q, n, 1, e), n + 1, e, next2)
         /\ Members(Put(q, n, 1, e), n + 1) = Members(q, n) \cup {e}
  <1>1. n \in Nat /\ head = IF n = 0 THEN NoFB ELSE q[1] BY DEF IsList
  <1>2. 1 \in 1 .. n + 1 /\ (1 = n + 1 <=> n = 0) /\ ~(1 > 1) BY <1>1
  <1>3. next2[e] = IF 1 = n + 1 THEN NoFB ELSE q[1] BY <1>1, <1>2
  <1>4. \A i \in 1 .. n : next2[q[i]] = next[q[i]] BY DEF Members
  <1>5. /\ IsList(Put(q, n, 1, e), n + 1, IF 1 = 1 THEN e ELSE head, next2)
        /\ Members(Put(q, n, 1, e), n + 1) = Members(q, n) \cup {e}
    BY <1>2, <1>3, <1>4, PutIsList
  <1> QED BY <1>5

\* The push of registerTimedFB adds to the add list a block that is on neither list.
LEMMA PushEffect ==
  ASSUME EntriesTyped, ListInv, NEW f \in FB, f \notin TimedEntries, f \notin AddEntries,
         mNext' = [mNext EXCEPT ![f] = mAddFBList], mAddFBList' = f,
         UNCHANGED <<mTimedFBList, mTimeOut>>
  PROVE  ListInv' /\ TimedEntries' = TimedEntries /\ AddEntries' = AddEntries \cup {f}
  <1>1. PICK t, n, a, m : TwoLists(t, n, a, m) BY DEF ListInv
  <1>2. /\ TimedEntries = Members(t, n) /\ AddEntries = Members(a, m)
        /\ Members(t, n) \subseteq FB /\ Members(a, m) \subseteq FB
        /\ Members(t, n) \cap Members(a, m) = {} /\ m \in Nat /\ a \in [1 .. m -> FB]
    BY <1>1, ListsAre
  <1>3. /\ IsList(t, n, mTimedFBList, mNext) /\ SortedBy(t, n, mTimeOut)
        /\ IsList(a, m, mAddFBList, mNext)
    BY <1>1 DEF TwoLists
  <1>4. mNext'[f] = mAddFBList /\ \A g \in FB : g # f => mNext'[g] = mNext[g]
    BY DEF EntriesTyped
  <1>5. IsList(t, n, mTimedFBList', mNext')
    <2>1. \A g \in Members(t, n) : mNext'[g] = mNext[g] BY <1>2, <1>4
    <2>2. IsList(t, n, mTimedFBList, mNext') BY <1>3, <2>1, SameList
    <2> QED BY <2>2
  <1>6. PICK r, k : IsList(r, k, f, mNext') /\ Members(r, k) = Members(a, m) \cup {f}
    <2>1. mNext'[f] = mAddFBList /\ \A g \in Members(a, m) : mNext'[g] = mNext[g]
      BY <1>2, <1>4
    <2>2. f \notin Members(a, m) BY <1>2
    <2>3. \A next2 : next2[f] = mAddFBList /\ (\A g \in Members(a, m) : next2[g] = mNext[g])
             => IsList(Put(a, m, 1, f), m + 1, f, next2)
                /\ Members(Put(a, m, 1, f), m + 1) = Members(a, m) \cup {f}
      BY <1>3, <2>2, PutFirst
    <2>4. IsList(Put(a, m, 1, f), m + 1, f, mNext')
                /\ Members(Put(a, m, 1, f), m + 1) = Members(a, m) \cup {f}
      BY <2>1, <2>3
    <2> QED BY <2>4
  <1>7. TwoLists(t, n, r, k)' BY <1>2, <1>3, <1>5, <1>6 DEF TwoLists
  <1>8. ListInv' /\ TimedEntries' = Members(t, n) /\ AddEntries' = Members(r, k)
    BY <1>7, ListsAreNow
  <1> QED BY <1>2, <1>6, <1>8

\* The lists are what they were while no link, no head and no time-out of an entry on the
\* timed list changes.
LEMMA SameEffect ==
  ASSUME ListInv, UNCHANGED <<mTimedFBList, mAddFBList, mNext>>,
         \A f \in TimedEntries : mTimeOut'[f] = mTimeOut[f]
  PROVE  ListInv' /\ TimedEntries' = TimedEntries /\ AddEntries' = AddEntries
  <1>1. PICK t, n, a, m : TwoLists(t, n, a, m) BY DEF ListInv
  <1>2. TimedEntries = Members(t, n) /\ AddEntries = Members(a, m) BY <1>1, ListsAre
  <1>3. SortedBy(t, n, mTimeOut') BY <1>1, <1>2, SameOrder DEF TwoLists
  <1>4. TwoLists(t, n, a, m)' BY <1>1, <1>3 DEF TwoLists
  <1>5. ListInv' /\ TimedEntries' = Members(t, n) /\ AddEntries' = Members(a, m)
    BY <1>4, ListsAreNow
  <1> QED BY <1>2, <1>5
-----------------------------------------------------------------------------
(* The blocks and the lists: the inductive invariant and its steps.        *)

\* No START reaches an E_RDELAY that is active: the application sends none, or has no such
\* block.
NeverRestarted == ~Restart \/ \A f \in FB : Kind[f] # "E_RDELAY"
\* The application leaves the timer time (see TimedFB), and the external event list has room
\* for one event of every block.
Considerate == Spaced /\ Prompt /\ NeverRestarted /\ Cardinality(FB) <= MaxPending

\* The blocks with an external event in line, ...
Waiting == {f \in FB : IsPending(f)}
\* ... and those whose removal is on order.
Leaving == {f \in FB : ToBeRemoved(f)}
\* No block has two events in line.
PendingOnce == \A i, j \in 1 .. Len(pending) : pending[i] = pending[j] => i = j

\* A block whose removal is on order is inactive and is not being registered, and the order
\* is carried out by the tick that follows the command.
LeavingInv(f) ==
  f \in Leaving => /\ ~mActive[f] /\ registering # f
                   /\ \/ commanded[f] = mForteTime
                      \/ mForteTime = commanded[f] + 1 /\ tick \in {"begin", "remove"}
\* A block on the add list is active, and leaves the list in the tick that follows the
\* command.
AddedInv(f) ==
  f \in AddEntries => /\ mActive[f]
                      /\ \/ commanded[f] = mForteTime
                         \/ mForteTime = commanded[f] + 1 /\ tick # "idle"
\* mActive and the lists agree: an active block runs and is on a list, or it is a delay whose
\* expiry is in line; an inactive block on the timed list is about to be removed.
ActiveInv(f) ==
  /\ mActive[f] => /\ mFBState[f] = "RUNNING"
                   /\ \/ f \in TimedEntries \/ f \in AddEntries
                      \/ f \in Waiting /\ f \notin Periodic
  /\ ~mActive[f] /\ f \in TimedEntries => f \in Leaving
\* A block with an event in line is active or was commanded in this tick, its time has come,
\* and it is on the timed list only if it is periodic, for its next cycle.
WaitingInv(f) ==
  f \in Waiting => /\ mActive[f] \/ commanded[f] = mForteTime
                   /\ registering # f /\ f \notin AddEntries
                   /\ due[f] <= mForteTime
                   /\ f \in TimedEntries => /\ f \in Periodic /\ mTimeOut[f] > mForteTime
                                            /\ due[f] + mInterval[f] <= mTimeOut[f]
\* A block is registered only while it is nowhere in the timer handler.
RegisteringInv(f) ==
  registering = f => /\ f \notin TimedEntries /\ f \notin AddEntries
                     /\ f \notin Waiting /\ f \notin Leaving
                     /\ ~mActive[f] /\ mFBState[f] = "RUNNING"
\* An entry fires no earlier than its block's EO is due, and between two ticks no entry of the
\* timed list is overdue.
TimeOutInv(f) ==
  /\ f \in TimedEntries \/ f \in AddEntries \/ registering = f
       => mInterval[f] >= 1 /\ due[f] <= mTimeOut[f]
  /\ tick \in {"add", "idle"} /\ f \in TimedEntries => mTimeOut[f] >= mForteTime
\* What holds of every block.
Block(f) ==
  /\ LeavingInv(f) /\ AddedInv(f) /\ ActiveInv(f)
  /\ WaitingInv(f) /\ RegisteringInv(f) /\ TimeOutInv(f)

\* The inductive invariant.
IInv == TypeInv /\ ListInv /\ PendingOnce /\ \A f \in FB : Block(f)

\* A step leaves f as it was.
Alike(f) ==
  /\ mActive'[f] = mActive[f] /\ mFBState'[f] = mFBState[f]
  /\ (registering' = f <=> registering = f)
  /\ commanded'[f] = commanded[f] /\ due'[f] = due[f] /\ mInterval'[f] = mInterval[f]
  /\ mTimeOut'[f] = mTimeOut[f]
  /\ (f \in TimedEntries' <=> f \in TimedEntries) /\ (f \in AddEntries' <=> f \in AddEntries)
  /\ (f \in Waiting' <=> f \in Waiting) /\ (f \in Leaving' <=> f \in Leaving)

\* A block that a step leaves alone keeps its part of the invariant.
LEMMA Untouched ==
  ASSUME NEW f \in FB, Block(f), Alike(f), UNCHANGED <<mForteTime, tick>>
  PROVE  Block(f)'
  <1>1. LeavingInv(f)' BY DEF Block, LeavingInv, Alike
  <1>2. AddedInv(f)' BY DEF Block, AddedInv, Alike
  <1>3. ActiveInv(f)' BY DEF Block, ActiveInv, Alike
  <1>4. WaitingInv(f)' BY DEF Block, WaitingInv, Alike
  <1>5. RegisteringInv(f)' BY DEF Block, RegisteringInv, Alike
  <1>6. TimeOutInv(f)' BY DEF Block, TimeOutInv, Alike
  <1> QED BY <1>1, <1>2, <1>3, <1>4, <1>5, <1>6 DEF Block

\* The blocks with an event in line are the elements of the sequence, now ...
LEMMA WaitingIs ==
  ASSUME pending \in Seq(FB)
  PROVE  Waiting = {pending[i] : i \in 1 .. Len(pending)}
  <1>1. \A i \in 1 .. Len(pending) : pending[i] \in FB OBVIOUS
  <1>2. DOMAIN pending = 1 .. Len(pending) OBVIOUS
  <1> QED BY <1>1, <1>2 DEF Waiting, IsPending

\* ... and after a step.
LEMMA WaitingNow ==
  ASSUME pending' \in Seq(FB)
  PROVE  Waiting' = {pending'[i] : i \in 1 .. Len(pending')}
  <1>1. \A i \in 1 .. Len(pending') : pending'[i] \in FB OBVIOUS
  <1>2. DOMAIN pending' = 1 .. Len(pending') OBVIOUS
  <1> QED BY <1>1, <1>2 DEF Waiting, IsPending

\* startNewEventChain(f) finds room for f's event if f has none in line: no more events wait
\* than there are blocks.
LEMMA EventStarted ==
  ASSUME Considerate, pending \in Seq(FB), PendingOnce, NEW f \in FB, f \notin Waiting,
         StartNewEventChain(f)
  PROVE  Waiting' = Waiting \cup {f} /\ PendingOnce'
  <1>1. Waiting = {pending[i] : i \in 1 .. Len(pending)} BY WaitingIs
  <1>2. Len(pending) \in Nat /\ pending \in [1 .. Len(pending) -> FB] BY LenProperties
  <1>3. \A i \in 1 .. Len(pending) : pending[i] # f BY <1>1
  <1> DEFINE longer == [i \in 1 .. Len(pending) + 1 |-> IF i <= Len(pending) THEN pending[i] ELSE f]
  <1>4. /\ longer \in [1 .. Len(pending) + 1 -> FB] /\ Len(pending) + 1 \in Nat
        /\ \A i, j \in 1 .. Len(pending) + 1 : longer[i] = longer[j] => i = j
    <2>1. \A i \in 1 .. Len(pending) + 1 : i <= Len(pending) => i \in 1 .. Len(pending) BY <1>2
    <2>2. \A i \in 1 .. Len(pending) + 1 : ~(i <= Len(pending)) => i = Len(pending) + 1 BY <1>2
    <2> QED BY <1>2, <1>3, <2>1, <2>2 DEF PendingOnce
  <1>5. Len(pending) + 1 <= Cardinality(FB)
    <2> HIDE DEF longer
    <2> QED BY <1>4, NoMoreThanFB
  <1>6. Len(pending) < MaxPending
    BY <1>2, <1>5, CardinalityFB, TimerAssumption DEF Considerate
  <1>7. pending' = Append(pending, f) BY <1>6 DEF StartNewEventChain
  <1>8. /\ pending' \in Seq(FB) /\ Len(pending') = Len(pending) + 1
        /\ \A i \in 1 .. Len(pending) : pending'[i] = pending[i]
        /\ pending'[Len(pending) + 1] = f
    BY <1>7, AppendProperties
  <1>9. Waiting' = {pending'[i] : i \in 1 .. Len(pending')} BY <1>8, WaitingNow
  <1>10. \A i \in 1 .. Len(pending') : i \in 1 .. Len(pending) \/ i = Len(pending) + 1
    BY <1>2, <1>8
  <1>11. PendingOnce' BY <1>3, <1>8, <1>10 DEF PendingOnce
  <1>12. Waiting' = Waiting \cup {f}
    <2>1. Len(pending) + 1 \in 1 .. Len(pending') /\ 1 .. Len(pending) \subseteq 1 .. Len(pending')
      BY <1>2, <1>8
    <2> QED BY <1>1, <1>8, <1>9, <1>10, <2>1
  <1> QED BY <1>11, <1>12

\* Executing the first event in line takes one event of one block.
LEMMA EventTaken ==
  ASSUME pending \in Seq(FB), PendingOnce, pending # <<>>, pending' = Tail(pending)
  PROVE  /\ Head(pending) \in Waiting /\ PendingOnce'
         /\ Waiting' = Waiting \ {Head(pending)}
  <1>1. Waiting = {pending[i] : i \in 1 .. Len(pending)} BY WaitingIs
  <1>2. /\ pending' \in Seq(FB) /\ Len(pending') = Len(pending) - 1 /\ Len(pending) \in Nat
        /\ \A i \in 1 .. Len(pending') : pending'[i] = pending[i + 1]
    BY TailFacts
  <1>3. Waiting' = {pending'[i] : i \in 1 .. Len(pending')} BY <1>2, WaitingNow
  <1>4. 1 \in 1 .. Len(pending) /\ Head(pending) = pending[1]
    BY HeadTailProperties, EmptySeq, <1>2
  <1>5. \A i \in 1 .. Len(pending') : i + 1 \in 1 .. Len(pending) /\ i + 1 # 1 BY <1>2
  <1>6. PendingOnce'
    <2> SUFFICES ASSUME NEW i \in 1 .. Len(pending'), NEW j \in 1 .. Len(pending'),
                        pending'[i] = pending'[j]
                 PROVE  i = j
      BY DEF PendingOnce
    <2>1. i + 1 = j + 1 BY <1>2, <1>5 DEF PendingOnce
    <2> QED BY <2>1, <1>2
  <1>7. ASSUME NEW i \in 1 .. Len(pending')
        PROVE  pending'[i] \in Waiting \ {Head(pending)}
    <2>1. pending[i + 1] # pending[1] BY <1>4, <1>5 DEF PendingOnce
    <2> QED BY <1>1, <1>2, <1>4, <1>5, <2>1
  <1>8. ASSUME NEW i \in 1 .. Len(pending), i # 1 PROVE pending[i] \in Waiting'
    <2>1. i - 1 \in 1 .. Len(pending') /\ (i - 1) + 1 = i BY <1>2, <1>8
    <2>2. pending'[i - 1] = pending[i] BY <1>2, <2>1
    <2> QED BY <1>3, <2>1, <2>2
  <1>9. Waiting' \subseteq Waiting \ {Head(pending)} BY <1>3, <1>7
  <1>10. Waiting \ {Head(pending)} \subseteq Waiting' BY <1>1, <1>4, <1>8
  <1> QED BY <1>1, <1>4, <1>6, <1>9, <1>10

\* processRemoveList works off the order of one block, and the last one leaves none.
LEMMA RemovalTaken ==
  ASSUME mRemoveFBList \in Seq(FB), mRemoveFBList # <<>>, mRemoveFBList' = Tail(mRemoveFBList)
  PROVE  /\ \A g \in FB : g # Head(mRemoveFBList) => (g \in Leaving' <=> g \in Leaving)
         /\ Leaving' \subseteq Leaving
         /\ Head(mRemoveFBList) \in Leaving
         /\ Len(mRemoveFBList) = 1 => Leaving' = {}
  <1>1. /\ mRemoveFBList' \in Seq(FB) /\ Len(mRemoveFBList') = Len(mRemoveFBList) - 1
        /\ Len(mRemoveFBList) \in Nat
        /\ \A i \in 1 .. Len(mRemoveFBList') : mRemoveFBList'[i] = mRemoveFBList[i + 1]
        /\ Head(mRemoveFBList) \in FB
    BY TailFacts
  <1>2. /\ DOMAIN mRemoveFBList = 1 .. Len(mRemoveFBList)
        /\ DOMAIN mRemoveFBList' = 1 .. Len(mRemoveFBList')
    BY <1>1
  <1>3. 1 \in 1 .. Len(mRemoveFBList) /\ Head(mRemoveFBList) = mRemoveFBList[1]
    BY HeadTailProperties, EmptySeq, <1>1
  <1>4. Leaving' \subseteq Leaving
    <2> SUFFICES ASSUME NEW g \in FB, NEW i \in 1 .. Len(mRemoveFBList'), mRemoveFBList'[i] = g
                 PROVE  g \in Leaving
      BY <1>2 DEF Leaving, ToBeRemoved
    <2>1. i + 1 \in 1 .. Len(mRemoveFBList) BY <1>1
    <2> QED BY <1>1, <1>2, <2>1 DEF Leaving, ToBeRemoved
  <1>5. ASSUME NEW g \in FB, g # Head(mRemoveFBList), g \in Leaving PROVE g \in Leaving'
    <2>1. PICK i \in 1 .. Len(mRemoveFBList) : mRemoveFBList[i] = g
      BY <1>2, <1>5 DEF Leaving, ToBeRemoved
    <2>2. i - 1 \in 1 .. Len(mRemoveFBList') /\ (i - 1) + 1 = i BY <1>1, <1>3, <1>5, <2>1
    <2>3. mRemoveFBList'[i - 1] = g BY <1>1, <2>1, <2>2
    <2> QED BY <1>2, <2>2, <2>3 DEF Leaving, ToBeRemoved
  <1>6. Head(mRemoveFBList) \in Leaving BY <1>1, <1>2, <1>3 DEF Leaving, ToBeRemoved
  <1>7. ASSUME Len(mRemoveFBList) = 1 PROVE Leaving' = {}
    <2>1. 1 .. Len(mRemoveFBList') = {} BY <1>1, <1>7
    <2> QED BY <1>2, <2>1 DEF Leaving, ToBeRemoved
  <1> QED BY <1>4, <1>5, <1>6, <1>7

\* An inactive block whose removal is not on order is on neither list.
LEMMA Unlisted ==
  ASSUME IInv, NEW f \in FB, ~mActive[f], f \notin Leaving
  PROVE  f \notin TimedEntries /\ f \notin AddEntries
  BY DEF IInv, Block, ActiveInv, AddedInv

\* A block that may be commanded has no removal on order, and is not on the add list.
LEMMA Settled ==
  ASSUME IInv, Considerate, NEW f \in FB, MayCommand(f)
  PROVE  /\ f \notin Leaving /\ f \notin AddEntries /\ registering # f
         /\ f \in Waiting => mActive[f]
  <1>1. /\ registering # f
        /\ \/ commanded[f] = MaxTime + 1
           \/ mForteTime > commanded[f] + 1
           \/ mForteTime > commanded[f] /\ tick = "idle"
    BY DEF Considerate, MayCommand, ServedSince, Never
  <1>2. mForteTime \in Nat /\ mForteTime <= MaxTime /\ commanded[f] \in Nat /\ MaxTime \in Nat
    BY TimerAssumption DEF IInv, TypeInv, EntriesTyped, TickTyped, BlockTyped
  <1>3. ~(commanded[f] = mForteTime) /\ ~(mForteTime = commanded[f] + 1 /\ tick # "idle")
    BY <1>1, <1>2
  <1>4. ~(mForteTime = commanded[f] + 1 /\ tick \in {"begin", "remove"}) BY <1>3
  <1>5. Block(f) BY DEF IInv
  <1> QED BY <1>1, <1>3, <1>4, <1>5 DEF Block, LeavingInv, AddedInv, WaitingInv

\* START of a block: E_CYCLE and E_DELAY ignore it while they are active, and no E_RDELAY
\* that is active gets one.
LEMMA StepStart ==
  ASSUME IInv, Considerate, NEW f \in FB, NEW dt \in Delays, StartEvent(f, dt) \/ RestartEvent(f, dt)
  PROVE  IInv'
  <1>1. /\ UNCHANGED <<mForteTime, mTimedFBList, mAddFBList, mRemoveFBList, mNext, tick, pending,
                       mActive, mFBState>>
        /\ EcetFree /\ MayCommand(f) /\ Command(f) /\ BeginRegister(f, dt)
        /\ mFBState[f] = "RUNNING" /\ ~mActive[f]
    BY DEF StartEvent, RestartEvent, MayStart, Considerate, NeverRestarted
  <1>2. TypeInv /\ ListInv /\ PendingOnce /\ Block(f) /\ \A g \in FB : Block(g) BY DEF IInv
  <1>3. TypeInv' BY <1>2, TypeStart
  <1>4. /\ registering' = f /\ mInterval'[f] >= 1 /\ due'[f] = mTimeOut'[f]
        /\ \A g \in FB : g # f => /\ mInterval'[g] = mInterval[g] /\ mTimeOut'[g] = mTimeOut[g]
                                   /\ due'[g] = due[g]
        /\ mTimeOut'[f] \in Nat
    BY <1>1, <1>2, BeginFacts
  <1>5. \A g \in FB : g # f => commanded'[g] = commanded[g] BY <1>1, <1>2, CommandTyped
  <1>6. f \notin Leaving /\ f \notin AddEntries /\ f \notin Waiting /\ f \notin TimedEntries
    BY <1>1, Settled, Unlisted
  <1>7. TimedEntries \subseteq FB BY <1>2, HeadFacts DEF TypeInv
  <1>8. ListInv' /\ TimedEntries' = TimedEntries /\ AddEntries' = AddEntries
    BY <1>1, <1>2, <1>4, <1>6, <1>7, SameEffect
  <1>9. Waiting' = Waiting /\ Leaving' = Leaving /\ PendingOnce'
    BY <1>1, <1>2 DEF Waiting, Leaving, IsPending, ToBeRemoved, PendingOnce
  <1>10. registering = NoFB BY <1>1 DEF EcetFree
  <1>11. ASSUME NEW g \in FB PROVE Block(g)'
    <2>1. CASE g # f
      <3>1. registering' = g <=> registering = g BY <1>4, <1>10, <2>1, NoFBAssumption
      <3>2. Alike(g) BY <1>1, <1>4, <1>5, <1>8, <1>9, <2>1, <3>1 DEF Alike
      <3> QED BY <1>1, <1>2, <3>2, Untouched
    <2>2. CASE g = f
      <3>1. f \notin Leaving' /\ f \notin AddEntries' /\ f \notin Waiting' /\ f \notin TimedEntries'
        BY <1>6, <1>8, <1>9
      <3>2. LeavingInv(f)' /\ AddedInv(f)' /\ WaitingInv(f)' BY <3>1 DEF LeavingInv, AddedInv, WaitingInv
      <3>3. ActiveInv(f)' /\ RegisteringInv(f)' BY <1>1, <3>1 DEF ActiveInv, RegisteringInv
      <3>4. TimeOutInv(f)' BY <1>4, <3>1 DEF TimeOutInv
      <3> QED BY <2>2, <3>2, <3>3, <3>4 DEF Block
    <2> QED BY <2>1, <2>2
  <1> QED BY <1>3, <1>8, <1>9, <1>11 DEF IInv

\* The end of registerTimedFB: the push on the add list, then mActive.
LEMMA StepEndRegister ==
  ASSUME IInv, EndRegister
  PROVE  IInv'
  <1> DEFINE f == registering
  <1>1. /\ UNCHANGED <<mForteTime, mTimedFBList, mRemoveFBList, mTimeOut, mInterval,
                       tick, pending, mFBState, due>>
        /\ f \in FB /\ f # NoFB /\ registering' = NoFB /\ Command(f)
        /\ mNext' = [mNext EXCEPT ![f] = mAddFBList] /\ mAddFBList' = f
        /\ mActive' = [mActive EXCEPT ![f] = TRUE] /\ tick # "add"
    BY DEF EndRegister, PushOnAddList, AddListLocked, IInv, TypeInv, BlockTyped
  <1>2. TypeInv /\ ListInv /\ PendingOnce /\ Block(f) /\ \A g \in FB : Block(g) BY <1>1 DEF IInv
  <1>3. TypeInv' BY <1>2, TypeEndRegister
  <1>4. f \notin Leaving /\ f \notin AddEntries /\ f \notin Waiting /\ f \notin TimedEntries
        /\ mFBState[f] = "RUNNING"
    BY <1>2 DEF Block, RegisteringInv
  <1>5. ListInv' /\ TimedEntries' = TimedEntries /\ AddEntries' = AddEntries \cup {f}
    BY <1>1, <1>2, <1>4, PushEffect DEF TypeInv
  <1>6. Waiting' = Waiting /\ Leaving' = Leaving /\ PendingOnce'
    BY <1>1, <1>2 DEF Waiting, Leaving, IsPending, ToBeRemoved, PendingOnce
  <1>7. commanded'[f] = mForteTime /\ \A g \in FB : g # f => commanded'[g] = commanded[g]
    BY <1>1, <1>2, CommandTyped
  <1>8. mActive'[f] = TRUE /\ \A g \in FB : g # f => mActive'[g] = mActive[g]
    BY <1>1, <1>2 DEF TypeInv, BlockTyped
  <1>9. ASSUME NEW g \in FB PROVE Block(g)'
    <2>1. CASE g # f
      <3>1. registering' = g <=> registering = g BY <1>1, <2>1, NoFBAssumption
      <3>2. Alike(g) BY <1>1, <1>5, <1>6, <1>7, <1>8, <2>1, <3>1 DEF Alike
      <3> QED BY <1>1, <1>2, <3>2, Untouched
    <2>2. CASE g = f
      <3>1. f \notin Leaving' /\ f \in AddEntries' /\ f \notin Waiting' /\ f \notin TimedEntries'
        BY <1>4, <1>5, <1>6
      <3>2. LeavingInv(g)' /\ WaitingInv(g)' BY <2>2, <3>1 DEF LeavingInv, WaitingInv
      <3>3. AddedInv(g)' BY <1>1, <1>7, <1>8, <2>2 DEF AddedInv
      <3>4. ActiveInv(g)' BY <1>1, <1>4, <1>8, <2>2, <3>1 DEF ActiveInv
      <3>5. RegisteringInv(g)' BY <1>1, NoFBAssumption DEF RegisteringInv
      <3>6. TimeOutInv(g)' BY <1>1, <1>2, <2>2, <3>1 DEF Block, TimeOutInv
      <3> QED BY <3>2, <3>3, <3>4, <3>5, <3>6 DEF Block
    <2> QED BY <2>1, <2>2
  <1> QED BY <1>3, <1>5, <1>6, <1>9 DEF IInv

\* STOP and a management Stop deactivate the block; a management Start changes mFBState only.
LEMMA StepStop ==
  ASSUME IInv, Considerate, NEW f \in FB, StopEvent(f) \/ ManagementStop(f) \/ ManagementStart(f)
  PROVE  IInv'
  <1>1. /\ UNCHANGED <<mForteTime, mTimedFBList, mAddFBList, mTimeOut, mInterval, mNext, tick,
                       pending, registering, due>>
        /\ MayCommand(f) /\ Command(f)
        /\ \/ /\ Deactivate(f)
              /\ mFBState' = mFBState \/ mFBState' = [mFBState EXCEPT ![f] = "STOPPED"]
           \/ /\ mFBState[f] = "STOPPED" /\ mFBState' = [mFBState EXCEPT ![f] = "RUNNING"]
              /\ UNCHANGED <<mActive, mRemoveFBList>>
    BY DEF StopEvent, ManagementStop, ManagementStart, entryVars, timerVars
  <1>2. TypeInv /\ ListInv /\ PendingOnce /\ Block(f) /\ \A g \in FB : Block(g) BY DEF IInv
  <1>3. TypeInv' BY <1>2, TypeCommand
  <1>4. f \notin Leaving /\ f \notin AddEntries /\ registering # f BY <1>1, Settled
  <1>5. ListInv' /\ TimedEntries' = TimedEntries /\ AddEntries' = AddEntries
    BY <1>1, <1>2, SameEffect
  <1>6. Waiting' = Waiting /\ PendingOnce'
    BY <1>1, <1>2 DEF Waiting, IsPending, PendingOnce
  <1>7. commanded'[f] = mForteTime /\ \A g \in FB : g # f => commanded'[g] = commanded[g]
    BY <1>1, <1>2, CommandTyped
  <1>8. /\ mActive'[f] = FALSE
        /\ \A g \in FB : g # f => mActive'[g] = mActive[g] /\ mFBState'[g] = mFBState[g]
        /\ mActive[f] => f \in Leaving'
        /\ Leaving \subseteq Leaving' /\ Leaving' \subseteq Leaving \cup {f}
    <2>1. mActive \in [FB -> BOOLEAN] /\ mFBState \in [FB -> {"RUNNING", "STOPPED"}]
      BY <1>2 DEF TypeInv, BlockTyped
    <2>2. \A g \in FB : g # f => mFBState'[g] = mFBState[g] BY <1>1, <2>1
    <2>3. CASE Deactivate(f) /\ mActive[f]
      <3>1. UnregisterTimedFB(f) /\ mActive' = [mActive EXCEPT ![f] = FALSE]
        BY <2>3 DEF Deactivate
      <3>2. \A g \in FB : ToBeRemoved(g)' <=> ToBeRemoved(g) \/ g = f
        BY <1>2, <3>1, AppendRemoved
      <3>3. Leaving' = Leaving \cup {f} BY <3>2 DEF Leaving
      <3> QED BY <2>1, <2>2, <3>1, <3>3
    <2>4. CASE ~mActive[f] /\ UNCHANGED <<mActive, mRemoveFBList>>
      <3>1. Leaving' = Leaving BY <2>4 DEF Leaving, ToBeRemoved
      <3> QED BY <2>1, <2>2, <2>4, <3>1
    <2>5. mFBState[f] = "STOPPED" => ~mActive[f]
      <3>1. mFBState[f] = "STOPPED" => mFBState[f] # "RUNNING" OBVIOUS
      <3> QED BY <1>2, <3>1 DEF Block, ActiveInv
    <2> QED BY <1>1, <2>3, <2>4, <2>5 DEF Deactivate
  <1>9. ASSUME NEW g \in FB PROVE Block(g)'
    <2>1. CASE g # f
      <3>1. Alike(g) BY <1>1, <1>5, <1>6, <1>7, <1>8, <2>1 DEF Alike
      <3> QED BY <1>1, <1>2, <3>1, Untouched
    <2>2. CASE g = f
      <3>1. LeavingInv(g)' BY <1>1, <1>4, <1>7, <1>8, <2>2 DEF LeavingInv
      <3>2. AddedInv(g)' BY <1>4, <1>5, <2>2 DEF AddedInv
      <3>3. ActiveInv(g)' BY <1>2, <1>4, <1>5, <1>8, <2>2 DEF ActiveInv, Block
      <3>4. WaitingInv(g)' BY <1>1, <1>2, <1>5, <1>6, <1>7, <2>2 DEF WaitingInv, Block
      <3>5. RegisteringInv(g)' BY <1>1, <1>4, <2>2 DEF RegisteringInv
      <3>6. TimeOutInv(g)' BY <1>1, <1>2, <1>5, <2>2 DEF TimeOutInv, Block
      <3> QED BY <3>1, <3>2, <3>3, <3>4, <3>5, <3>6 DEF Block
    <2> QED BY <2>1, <2>2
  <1> QED BY <1>3, <1>5, <1>6, <1>9 DEF IInv

\* The external event of a block: executed, or ignored by one that is stopped.
LEMMA StepEvent ==
  ASSUME IInv, NEW f \in FB, ExternalEvent(f) \/ IgnoredEvent(f)
  PROVE  IInv'
  <1>1. /\ UNCHANGED <<mForteTime, mTimedFBList, mAddFBList, mRemoveFBList, mTimeOut, mInterval,
                       mNext, tick, mFBState, registering, commanded>>
        /\ pending # <<>> /\ Head(pending) = f /\ pending' = Tail(pending)
        /\ \/ /\ f \in Periodic /\ mActive' = mActive
              /\ due' = [due EXCEPT ![f] = @ + mInterval[f]]
           \/ /\ f \notin Periodic /\ mActive' = [mActive EXCEPT ![f] = FALSE] /\ due' = due
           \/ mFBState[f] = "STOPPED" /\ mActive' = mActive /\ due' = due
    BY KindAssumption
       DEF ExternalEvent, IgnoredEvent, SendsEO, Expired, entryVars, fbVars, history
  <1>2. TypeInv /\ ListInv /\ PendingOnce /\ Block(f) /\ \A g \in FB : Block(g) BY DEF IInv
  <1>3. TypeInv' BY <1>2, TypeEvent
  <1>4. ListInv' /\ TimedEntries' = TimedEntries /\ AddEntries' = AddEntries
    BY <1>1, <1>2, SameEffect
  <1>5. f \in Waiting /\ PendingOnce' /\ Waiting' = Waiting \ {f}
    BY <1>1, <1>2, EventTaken DEF TypeInv, TickTyped
  <1>6. Leaving' = Leaving BY <1>1 DEF Leaving, ToBeRemoved
  <1>7. /\ \A g \in FB : g # f => mActive'[g] = mActive[g] /\ due'[g] = due[g]
        /\ \/ f \in Periodic /\ mActive'[f] = mActive[f] /\ due'[f] = due[f] + mInterval[f]
           \/ f \notin Periodic /\ ~mActive'[f] /\ due'[f] = due[f]
           \/ mFBState[f] = "STOPPED" /\ mActive'[f] = mActive[f] /\ due'[f] = due[f]
    BY <1>1, <1>2 DEF TypeInv, BlockTyped
  <1>8. f \notin AddEntries /\ registering # f BY <1>2, <1>5 DEF Block, WaitingInv
  <1>9. mFBState[f] = "STOPPED" => ~mActive[f]
    <2>1. mFBState[f] = "STOPPED" => mFBState[f] # "RUNNING" OBVIOUS
    <2> QED BY <1>2, <2>1 DEF Block, ActiveInv
  <1>10. ASSUME NEW g \in FB PROVE Block(g)'
    <2>1. CASE g # f
      <3>1. Alike(g) BY <1>1, <1>4, <1>5, <1>6, <1>7, <2>1 DEF Alike
      <3> QED BY <1>1, <1>2, <3>1, Untouched
    <2>2. CASE g = f
      <3>1. f \notin Waiting' /\ f \notin AddEntries' /\ registering' # f
        BY <1>1, <1>4, <1>5, <1>8
      <3>2. AddedInv(g)' /\ WaitingInv(g)' /\ RegisteringInv(g)'
        BY <2>2, <3>1 DEF AddedInv, WaitingInv, RegisteringInv
      <3>3. LeavingInv(g)'
        <4>1. f \in Leaving => ~mActive'[f] BY <1>2, <1>7 DEF Block, LeavingInv
        <4> QED BY <1>1, <1>2, <1>6, <2>2, <3>1, <4>1 DEF Block, LeavingInv
      <3>4. ActiveInv(g)'
        <4>1. mActive'[f] => mActive[f] /\ mFBState[f] = "RUNNING" /\ f \in Periodic
          BY <1>2, <1>7, <1>9 DEF Block, ActiveInv
        <4>2. mActive'[f] => f \in TimedEntries BY <1>2, <1>8, <4>1 DEF Block, ActiveInv
        <4>3. ~mActive'[f] /\ f \in TimedEntries => f \in Leaving
          BY <1>2, <1>5, <1>7 DEF Block, ActiveInv, WaitingInv
        <4> QED BY <1>1, <1>4, <1>6, <2>2, <4>1, <4>2, <4>3 DEF ActiveInv
      <3>5. TimeOutInv(g)'
        <4>1. f \in TimedEntries => due'[f] <= mTimeOut[f] /\ mInterval[f] >= 1
          <5>1. f \in TimedEntries => /\ due[f] + mInterval[f] <= mTimeOut[f]
                                      /\ due[f] <= mTimeOut[f] /\ mInterval[f] >= 1
            BY <1>2, <1>5 DEF Block, WaitingInv, TimeOutInv
          <5> QED BY <1>7, <5>1
        <4> QED BY <1>1, <1>2, <1>4, <2>2, <3>1, <4>1 DEF Block, TimeOutInv
      <3> QED BY <3>2, <3>3, <3>4, <3>5 DEF Block
    <2> QED BY <2>1, <2>2
  <1> QED BY <1>3, <1>4, <1>5, <1>10 DEF IInv

\* The time advances: every event in line has been executed by then.
LEMMA StepTick ==
  ASSUME IInv, Considerate, Tick
  PROVE  IInv'
  <1>1. /\ UNCHANGED <<mTimedFBList, mAddFBList, mRemoveFBList, mTimeOut, mInterval, mNext, pending,
                       mActive, mFBState, registering, commanded, due>>
        /\ mForteTime' = mForteTime + 1 /\ tick = "idle" /\ tick' = "begin" /\ pending = <<>>
    BY DEF Tick, NextTick, entryVars, fbVars, history, Considerate
  <1>2. TypeInv /\ ListInv /\ PendingOnce /\ \A g \in FB : Block(g) BY DEF IInv
  <1>3. TypeInv' BY <1>2, TypeTick
  <1>4. ListInv' /\ TimedEntries' = TimedEntries /\ AddEntries' = AddEntries
    BY <1>1, <1>2, SameEffect
  <1>5. Waiting = {} /\ Waiting' = Waiting /\ Leaving' = Leaving /\ PendingOnce'
    <2>1. Waiting = {pending[i] : i \in 1 .. Len(pending)}
      BY <1>2, WaitingIs DEF TypeInv, TickTyped
    <2>2. 1 .. Len(pending) = {} BY <1>1
    <2> QED BY <1>1, <1>2, <2>1, <2>2 DEF Waiting, Leaving, IsPending, ToBeRemoved, PendingOnce
  <1>6. mForteTime \in Nat /\ commanded \in [FB -> Nat]
    BY <1>2 DEF TypeInv, EntriesTyped, BlockTyped
  <1>7. ASSUME NEW g \in FB PROVE Block(g)'
    <2>1. Block(g) /\ commanded[g] \in Nat BY <1>2, <1>6
    <2>2. LeavingInv(g)' BY <1>1, <1>5, <1>6, <2>1 DEF Block, LeavingInv
    <2>3. AddedInv(g)' BY <1>1, <1>4, <1>6, <2>1 DEF Block, AddedInv
    <2>4. ActiveInv(g)' BY <1>1, <1>4, <1>5, <2>1 DEF Block, ActiveInv
    <2>5. WaitingInv(g)' BY <1>5 DEF WaitingInv
    <2>6. RegisteringInv(g)' BY <1>1, <1>4, <1>5, <2>1 DEF Block, RegisteringInv
    <2>7. TimeOutInv(g)' BY <1>1, <1>4, <2>1 DEF Block, TimeOutInv
    <2> QED BY <2>2, <2>3, <2>4, <2>5, <2>6, <2>7 DEF Block
  <1> QED BY <1>3, <1>4, <1>5, <1>7 DEF IInv

\* nextTick looks at the remove list: it goes by it only if there is nothing to remove.
LEMMA StepCheck ==
  ASSUME IInv, CheckRemoveList, UNCHANGED <<fbVars, history>>
  PROVE  IInv'
  <1>1. /\ UNCHANGED <<mForteTime, mTimedFBList, mAddFBList, mRemoveFBList, mTimeOut, mInterval, mNext,
                       pending, mActive, mFBState, registering, commanded, due>>
        /\ tick = "begin" /\ tick' = IF mRemoveFBList # <<>> THEN "remove" ELSE "timed"
    BY DEF CheckRemoveList, entryVars, fbVars, history
  <1>2. TypeInv /\ ListInv /\ PendingOnce /\ \A g \in FB : Block(g) BY DEF IInv
  <1>3. TypeInv' BY <1>2, TypeServe DEF ServeTick
  <1>4. ListInv' /\ TimedEntries' = TimedEntries /\ AddEntries' = AddEntries
    BY <1>1, <1>2, SameEffect
  <1>5. Waiting' = Waiting /\ Leaving' = Leaving /\ PendingOnce'
    BY <1>1, <1>2 DEF Waiting, Leaving, IsPending, ToBeRemoved, PendingOnce
  <1>6. mRemoveFBList = <<>> => Leaving = {} BY DEF Leaving, ToBeRemoved
  <1>7. ASSUME NEW g \in FB PROVE Block(g)'
    <2>1. Block(g) BY <1>2
    <2>2. LeavingInv(g)' BY <1>1, <1>5, <1>6, <2>1 DEF Block, LeavingInv
    <2>3. AddedInv(g)' BY <1>1, <1>4, <2>1 DEF Block, AddedInv
    <2>4. ActiveInv(g)' BY <1>1, <1>4, <1>5, <2>1 DEF Block, ActiveInv
    <2>5. WaitingInv(g)' BY <1>1, <1>4, <1>5, <2>1 DEF Block, WaitingInv
    <2>6. RegisteringInv(g)' BY <1>1, <1>4, <1>5, <2>1 DEF Block, RegisteringInv
    <2>7. TimeOutInv(g)' BY <1>1, <1>4, <2>1 DEF Block, TimeOutInv
    <2> QED BY <2>2, <2>3, <2>4, <2>5, <2>6, <2>7 DEF Block
  <1> QED BY <1>3, <1>4, <1>5, <1>7 DEF IInv

\* processRemoveList takes one block from the timed list.
LEMMA StepRemove ==
  ASSUME IInv, ProcessRemoveList, UNCHANGED <<fbVars, history>>
  PROVE  IInv'
  <1> DEFINE f == Head(mRemoveFBList)
  <1>1. /\ UNCHANGED <<mForteTime, mAddFBList, mInterval, pending,
                       mActive, mFBState, registering, commanded, due>>
        /\ tick = "remove" /\ RemoveTimedFB(f) /\ mRemoveFBList' = Tail(mRemoveFBList)
        /\ tick' = IF Len(mRemoveFBList) = 1 THEN "timed" ELSE "remove"
    BY DEF ProcessRemoveList, fbVars, history
  <1>2. TypeInv /\ ListInv /\ PendingOnce /\ \A g \in FB : Block(g) BY DEF IInv
  <1>3. TypeInv' BY <1>2, TypeServe DEF ServeTick
  <1>4. /\ \A g \in FB : g # f => (g \in Leaving' <=> g \in Leaving)
        /\ Leaving' \subseteq Leaving /\ f \in Leaving
        /\ Len(mRemoveFBList) = 1 => Leaving' = {}
    BY <1>1, <1>2, RemovalTaken DEF TypeInv, TickTyped
  <1>5. f \in FB /\ Leaving \subseteq FB BY <1>4 DEF Leaving
  <1> HIDE DEF f
  <1>6. /\ ListInv' /\ TimedEntries' = TimedEntries \ {f} /\ AddEntries' = AddEntries
        /\ \A g \in FB : g # f => mTimeOut'[g] = mTimeOut[g]
    BY <1>1, <1>2, <1>5, RemoveEffect DEF TypeInv
  <1>7. Waiting' = Waiting /\ PendingOnce'
    BY <1>1, <1>2 DEF Waiting, IsPending, PendingOnce
  <1>8. ~mActive[f] /\ registering # f BY <1>2, <1>4, <1>5 DEF Block, LeavingInv
  <1>9. f \notin AddEntries BY <1>2, <1>5, <1>8 DEF Block, AddedInv
  <1>10. ASSUME NEW g \in FB PROVE Block(g)'
    <2>1. Block(g) BY <1>2
    <2>2. LeavingInv(g)' BY <1>1, <1>4, <2>1 DEF Block, LeavingInv
    <2>3. AddedInv(g)' BY <1>1, <1>6, <2>1 DEF Block, AddedInv
    <2>4. ActiveInv(g)' BY <1>1, <1>4, <1>6, <1>7, <1>8, <2>1 DEF Block, ActiveInv
    <2>5. WaitingInv(g)' BY <1>1, <1>6, <1>7, <2>1 DEF Block, WaitingInv
    <2>6. RegisteringInv(g)' BY <1>1, <1>4, <1>6, <1>7, <2>1 DEF Block, RegisteringInv
    <2>7. TimeOutInv(g)' BY <1>1, <1>6, <1>8, <1>9, <2>1 DEF Block, TimeOutInv
    <2> QED BY <2>2, <2>3, <2>4, <2>5, <2>6, <2>7 DEF Block
  <1> QED BY <1>3, <1>6, <1>7, <1>10 DEF IInv

\* What firing an entry does to its time-out and to the events waiting.
LEMMA FireFacts ==
  ASSUME TypeInv, Considerate, PendingOnce, NEW f \in FB, f \notin Waiting, NEW head,
         TriggerTimedFB(f, head)
  PROVE  /\ Waiting' = Waiting \cup {f} /\ PendingOnce'
         /\ \A g \in FB : g # f => mTimeOut'[g] = mTimeOut[g]
         /\ f \in Periodic => mTimeOut'[f] = mForteTime + mInterval[f]
  <1>1. /\ StartNewEventChain(f)
        /\ mTimeOut' = [mTimeOut EXCEPT ![f] = IF f \in Periodic THEN mForteTime + mInterval[f] ELSE 0]
    BY DEF TriggerTimedFB
  <1>2. Waiting' = Waiting \cup {f} /\ PendingOnce' BY <1>1, EventStarted DEF TypeInv, TickTyped
  <1>3. mTimeOut \in [FB -> Nat] BY DEF TypeInv, EntriesTyped
  <1> QED BY <1>1, <1>2, <1>3

\* processTimedFBList fires the head while it is due, and stops at the first entry that is
\* not: the list is in order, so no other is due either.
LEMMA StepTimed ==
  ASSUME IInv, Considerate, ProcessTimedFBList, UNCHANGED <<fbVars, history>>
  PROVE  IInv'
  <1> DEFINE f == mTimedFBList
  <1>1. /\ UNCHANGED <<mForteTime, mAddFBList, mRemoveFBList, mInterval,
                       mActive, mFBState, registering, commanded, due>>
        /\ tick = "timed"
        /\ \/ /\ f # NoFB /\ Due(f) /\ TriggerTimedFB(f, mNext[f]) /\ tick' = "timed"
           \/ /\ ~(f # NoFB /\ Due(f)) /\ tick' = "add"
              /\ UNCHANGED <<mTimedFBList, mNext, mTimeOut, pending>>
    BY DEF ProcessTimedFBList, fbVars, history
  <1>2. TypeInv /\ EntriesTyped /\ ListInv /\ PendingOnce /\ \A g \in FB : Block(g)
    BY DEF IInv, TypeInv
  <1>3. TypeInv' BY <1>2, TypeServe DEF ServeTick
  <1>4. Leaving' = Leaving BY <1>1 DEF Leaving, ToBeRemoved
  <1>5. mForteTime \in Nat /\ mTimeOut \in [FB -> Nat] /\ mInterval \in [FB -> Nat] /\ due \in [FB -> Nat]
    BY <1>2 DEF TypeInv, EntriesTyped, BlockTyped
  <1>6. /\ TimedEntries \subseteq FB /\ TimedEntries \cap AddEntries = {}
        /\ f # NoFB => f \in TimedEntries
        /\ \A g \in TimedEntries : f # NoFB /\ mTimeOut[f] <= mTimeOut[g]
    BY <1>2, HeadFacts
  <1>7. CASE f # NoFB /\ Due(f) /\ TriggerTimedFB(f, mNext[f]) /\ tick' = "timed"
    <2>1. f \in TimedEntries /\ f \in FB /\ f \notin AddEntries /\ mTimeOut[f] <= mForteTime
      BY <1>6, <1>7 DEF Due
    <2>2. Block(f) /\ mTimeOut[f] \in Nat /\ due[f] \in Nat /\ mInterval[f] \in Nat BY <1>2, <1>5, <2>1
    <2>3. f \notin Waiting
      <3>1. ~(mTimeOut[f] > mForteTime) BY <1>5, <2>1, <2>2
      <3> QED BY <2>1, <2>2, <3>1 DEF Block, WaitingInv
    <2>4. /\ ListInv' /\ AddEntries' = AddEntries
          /\ TimedEntries' = IF f \in Periodic THEN TimedEntries ELSE TimedEntries \ {f}
      BY <1>1, <1>2, <1>7, FireTimedEffect
    <2>5. /\ Waiting' = Waiting \cup {f} /\ PendingOnce'
          /\ \A g \in FB : g # f => mTimeOut'[g] = mTimeOut[g]
          /\ f \in Periodic => mTimeOut'[f] = mForteTime + mInterval[f]
      BY <1>2, <1>7, <2>1, <2>3, FireFacts
    <2>6. mInterval[f] >= 1 /\ due[f] <= mTimeOut[f] /\ registering # f
      BY <2>1, <2>2 DEF Block, TimeOutInv, RegisteringInv
    <2>7. mActive[f] \/ (f \in Leaving /\ commanded[f] = mForteTime)
      BY <1>1, <2>1, <2>2 DEF Block, ActiveInv, LeavingInv
    <2> HIDE DEF f
    <2>8. ASSUME NEW g \in FB PROVE Block(g)'
      <3>1. CASE g # f
        <4>1. Alike(g) BY <1>1, <1>4, <2>4, <2>5, <3>1 DEF Alike
        <4> QED BY <1>1, <1>2, <1>7, <4>1, Untouched
      <3>2. CASE g = f
        <4>1. LeavingInv(g)' BY <3>2, <1>1, <1>4, <1>7, <2>2 DEF Block, LeavingInv
        <4>2. AddedInv(g)' BY <3>2, <2>1, <2>4 DEF AddedInv
        <4>3. ActiveInv(g)' BY <3>2, <1>1, <1>4, <2>2, <2>4, <2>5, <2>7 DEF Block, ActiveInv
        <4>4. WaitingInv(g)'
          <5>1. due[f] <= mForteTime BY <1>5, <2>1, <2>2, <2>6
          <5>2. f \in Periodic => mTimeOut'[f] > mForteTime /\ due[f] + mInterval[f] <= mTimeOut'[f]
            BY <1>5, <2>2, <2>5, <2>6, <5>1
          <5>3. f \in TimedEntries' => f \in Periodic BY <2>4
          <5> QED BY <3>2, <1>1, <2>1, <2>4, <2>6, <2>7, <5>1, <5>2, <5>3 DEF WaitingInv
        <4>5. RegisteringInv(g)' BY <3>2, <1>1, <2>6 DEF RegisteringInv
        <4>6. TimeOutInv(g)'
          <5>1. f \in Periodic => due[f] <= mTimeOut'[f] BY <1>5, <2>1, <2>2, <2>5, <2>6
          <5>2. f \in TimedEntries' => f \in Periodic BY <2>4
          <5> QED BY <3>2, <1>1, <1>7, <2>1, <2>4, <2>6, <5>1, <5>2 DEF TimeOutInv
        <4> QED BY <3>2, <4>1, <4>2, <4>3, <4>4, <4>5, <4>6 DEF Block
      <3> QED BY <3>1, <3>2
    <2> QED BY <1>3, <2>4, <2>5, <2>8 DEF IInv
  <1>8. CASE /\ ~(f # NoFB /\ Due(f)) /\ tick' = "add"
             /\ UNCHANGED <<mTimedFBList, mNext, mTimeOut, pending>>
    <2>1. ListInv' /\ TimedEntries' = TimedEntries /\ AddEntries' = AddEntries
      BY <1>1, <1>2, <1>8, SameEffect
    <2>2. Waiting' = Waiting /\ PendingOnce'
      BY <1>2, <1>8 DEF Waiting, IsPending, PendingOnce
    <2>3. \A g \in TimedEntries : mTimeOut[g] >= mForteTime
      <3> SUFFICES ASSUME NEW g \in TimedEntries PROVE mTimeOut[g] >= mForteTime OBVIOUS
      <3>1. f # NoFB /\ mTimeOut[f] <= mTimeOut[g] /\ f \in FB /\ g \in FB BY <1>6
      <3>2. ~(mTimeOut[f] <= mForteTime) BY <1>8, <3>1 DEF Due
      <3>3. mTimeOut[f] \in Nat /\ mTimeOut[g] \in Nat BY <1>5, <3>1
      <3> QED BY <1>5, <3>1, <3>2, <3>3
    <2>4. ASSUME NEW g \in FB PROVE Block(g)'
      <3>1. Block(g) BY <1>2
      <3>2. LeavingInv(g)' BY <1>1, <1>4, <3>1 DEF Block, LeavingInv
      <3>3. AddedInv(g)' BY <1>1, <1>8, <2>1, <3>1 DEF Block, AddedInv
      <3>4. ActiveInv(g)' BY <1>1, <1>4, <2>1, <2>2, <3>1 DEF Block, ActiveInv
      <3>5. WaitingInv(g)' BY <1>1, <1>8, <2>1, <2>2, <3>1 DEF Block, WaitingInv
      <3>6. RegisteringInv(g)' BY <1>1, <1>4, <2>1, <2>2, <3>1 DEF Block, RegisteringInv
      <3>7. TimeOutInv(g)' BY <1>1, <1>8, <2>1, <2>3, <3>1 DEF Block, TimeOutInv
      <3> QED BY <3>2, <3>3, <3>4, <3>5, <3>6, <3>7 DEF Block
    <2> QED BY <1>3, <2>1, <2>2, <2>4 DEF IInv
  <1> QED BY <1>1, <1>7, <1>8

\* processAddList fires an entry whose time has passed and puts any other in its place.
LEMMA StepAdd ==
  ASSUME IInv, Considerate, ProcessAddList, UNCHANGED <<fbVars, history>>
  PROVE  IInv'
  <1> DEFINE f == mAddFBList
             added == AddTimedFBEntry(f, mTimedFBList, mNext, mTimeOut)
  <1>1. /\ UNCHANGED <<mForteTime, mRemoveFBList, mInterval,
                       mActive, mFBState, registering, commanded, due>>
        /\ tick = "add"
        /\ \/ /\ f = NoFB /\ tick' = "idle"
              /\ UNCHANGED <<mTimedFBList, mAddFBList, mNext, mTimeOut, pending>>
           \/ /\ f # NoFB /\ mAddFBList' = mNext[f] /\ tick' = "add"
              /\ \/ Passed(f) /\ TriggerTimedFB(f, mTimedFBList)
                 \/ /\ ~Passed(f) /\ mTimedFBList' = added.head /\ mNext' = added.next
                    /\ UNCHANGED <<mTimeOut, pending>>
    BY DEF ProcessAddList, fbVars, history
  <1>2. TypeInv /\ EntriesTyped /\ ListInv /\ PendingOnce /\ \A g \in FB : Block(g)
    BY DEF IInv, TypeInv
  <1>3. TypeInv' BY <1>2, TypeServe DEF ServeTick
  <1>4. Leaving' = Leaving BY <1>1 DEF Leaving, ToBeRemoved
  <1>5. mForteTime \in Nat /\ mTimeOut \in [FB -> Nat] /\ mInterval \in [FB -> Nat] /\ due \in [FB -> Nat]
    BY <1>2 DEF TypeInv, EntriesTyped, BlockTyped
  <1>6. /\ AddEntries \subseteq FB /\ TimedEntries \cap AddEntries = {}
        /\ f # NoFB => f \in AddEntries
        /\ f = NoFB => AddEntries = {}
    BY <1>2, HeadFacts
  <1>7. CASE f = NoFB
    <2>1. tick' = "idle" /\ UNCHANGED <<mTimedFBList, mAddFBList, mNext, mTimeOut, pending>>
      BY <1>1, <1>7
    <2>2. ListInv' /\ TimedEntries' = TimedEntries /\ AddEntries' = AddEntries /\ AddEntries = {}
      BY <1>1, <1>2, <1>6, <1>7, <2>1, SameEffect
    <2>3. Waiting' = Waiting /\ PendingOnce'
      BY <1>2, <2>1 DEF Waiting, IsPending, PendingOnce
    <2>4. ASSUME NEW g \in FB PROVE Block(g)'
      <3>1. Block(g) BY <1>2
      <3>2. LeavingInv(g)' BY <1>1, <1>4, <3>1 DEF Block, LeavingInv
      <3>3. AddedInv(g)' BY <2>2 DEF AddedInv
      <3>4. ActiveInv(g)' BY <1>1, <1>4, <2>2, <2>3, <3>1 DEF Block, ActiveInv
      <3>5. WaitingInv(g)' BY <1>1, <2>1, <2>2, <2>3, <3>1 DEF Block, WaitingInv
      <3>6. RegisteringInv(g)' BY <1>1, <1>4, <2>2, <2>3, <3>1 DEF Block, RegisteringInv
      <3>7. TimeOutInv(g)' BY <1>1, <2>1, <2>2, <3>1 DEF Block, TimeOutInv
      <3> QED BY <3>2, <3>3, <3>4, <3>5, <3>6, <3>7 DEF Block
    <2> QED BY <1>3, <2>2, <2>3, <2>4 DEF IInv
  <1>8. CASE f # NoFB
    <2>1. f \in AddEntries /\ f \in FB /\ f \notin TimedEntries BY <1>6, <1>8
    <2>2. Block(f) /\ mTimeOut[f] \in Nat /\ due[f] \in Nat /\ mInterval[f] \in Nat BY <1>2, <1>5, <2>1
    <2>3. /\ mActive[f] /\ f \notin Waiting /\ f \notin Leaving /\ registering # f
          /\ mFBState[f] = "RUNNING" /\ mInterval[f] >= 1 /\ due[f] <= mTimeOut[f]
      BY <2>1, <2>2
         DEF Block, AddedInv, WaitingInv, LeavingInv, RegisteringInv, ActiveInv, TimeOutInv
    <2>4. tick' = "add" /\ mAddFBList' = mNext[f] BY <1>1, <1>8
    <2>5. CASE Passed(f) /\ TriggerTimedFB(f, mTimedFBList)
      <3>1. /\ ListInv' /\ AddEntries' = AddEntries \ {f}
            /\ TimedEntries' = IF f \in Periodic THEN TimedEntries \cup {f} ELSE TimedEntries
        BY <1>2, <1>8, <2>4, <2>5, FireAddedEffect
      <3>2. /\ Waiting' = Waiting \cup {f} /\ PendingOnce'
            /\ \A g \in FB : g # f => mTimeOut'[g] = mTimeOut[g]
            /\ f \in Periodic => mTimeOut'[f] = mForteTime + mInterval[f]
        BY <1>2, <2>1, <2>3, <2>5, FireFacts
      <3>3. due[f] <= mForteTime BY <1>5, <2>2, <2>3, <2>5 DEF Passed
      <3>4. f \in Periodic => /\ mTimeOut'[f] > mForteTime /\ due[f] + mInterval[f] <= mTimeOut'[f]
                              /\ due[f] <= mTimeOut'[f] /\ mTimeOut'[f] >= mForteTime
        BY <1>5, <2>2, <2>3, <3>2, <3>3
      <3>5. f \in TimedEntries' <=> f \in Periodic BY <2>1, <3>1
      <3>6. f \notin AddEntries' BY <3>1
      <3> HIDE DEF f
      <3>7. ASSUME NEW g \in FB PROVE Block(g)'
        <4>1. CASE g # f
          <5>1. Alike(g) BY <1>1, <1>4, <3>1, <3>2, <4>1 DEF Alike
          <5> QED BY <1>1, <1>2, <2>4, <5>1, Untouched
        <4>2. CASE g = f
          <5>1. LeavingInv(g)' BY <4>2, <1>4, <2>3 DEF LeavingInv
          <5>2. AddedInv(g)' BY <4>2, <3>6 DEF AddedInv
          <5>3. ActiveInv(g)' BY <4>2, <1>1, <2>3, <3>2, <3>5 DEF ActiveInv
          <5>4. WaitingInv(g)' BY <4>2, <1>1, <2>3, <3>3, <3>4, <3>5, <3>6 DEF WaitingInv
          <5>5. RegisteringInv(g)' BY <4>2, <1>1, <2>3 DEF RegisteringInv
          <5>6. TimeOutInv(g)' BY <4>2, <1>1, <2>3, <3>4, <3>5, <3>6 DEF TimeOutInv
          <5> QED BY <4>2, <5>1, <5>2, <5>3, <5>4, <5>5, <5>6 DEF Block
        <4> QED BY <4>1, <4>2
      <3> QED BY <1>3, <3>1, <3>2, <3>7 DEF IInv
    <2>6. CASE /\ ~Passed(f) /\ mTimedFBList' = added.head /\ mNext' = added.next
               /\ UNCHANGED <<mTimeOut, pending>>
      <3>1. /\ ListInv' /\ AddEntries' = AddEntries \ {f}
            /\ TimedEntries' = TimedEntries \cup {f}
        BY <1>2, <1>8, <2>4, <2>6, PutAddedEffect
      <3>2. Waiting' = Waiting /\ PendingOnce'
        BY <1>2, <2>6 DEF Waiting, IsPending, PendingOnce
      <3>3. mTimeOut'[f] >= mForteTime /\ mTimeOut' = mTimeOut BY <1>5, <2>2, <2>6 DEF Passed
      <3>4. f \in TimedEntries' /\ f \notin AddEntries' BY <3>1
      <3> HIDE DEF f, added
      <3>5. ASSUME NEW g \in FB PROVE Block(g)'
        <4>1. CASE g # f
          <5>1. Alike(g) BY <1>1, <1>4, <3>1, <3>2, <3>3, <4>1 DEF Alike
          <5> QED BY <1>1, <1>2, <2>4, <5>1, Untouched
        <4>2. CASE g = f
          <5>1. LeavingInv(g)' BY <4>2, <1>4, <2>3 DEF LeavingInv
          <5>2. AddedInv(g)' BY <4>2, <3>4 DEF AddedInv
          <5>3. ActiveInv(g)' BY <4>2, <1>1, <2>3, <3>4 DEF ActiveInv
          <5>4. WaitingInv(g)' BY <4>2, <2>3, <3>2 DEF WaitingInv
          <5>5. RegisteringInv(g)' BY <4>2, <1>1, <2>3 DEF RegisteringInv
          <5>6. TimeOutInv(g)' BY <4>2, <1>1, <2>3, <3>3 DEF TimeOutInv
          <5> QED BY <4>2, <5>1, <5>2, <5>3, <5>4, <5>5, <5>6 DEF Block
        <4> QED BY <4>1, <4>2
      <3> QED BY <1>3, <3>1, <3>2, <3>5 DEF IInv
    <2> QED BY <1>1, <1>8, <2>5, <2>6
  <1> QED BY <1>7, <1>8
-----------------------------------------------------------------------------
(* The theorems.                                                           *)

\* The invariant holds initially ...
LEMMA InitIInv == Init => IInv
  <1> SUFFICES ASSUME Init PROVE IInv OBVIOUS
  <1>1. /\ mTimedFBList = NoFB /\ mAddFBList = NoFB /\ mRemoveFBList = <<>> /\ pending = <<>>
        /\ registering = NoFB /\ mActive = [f \in FB |-> FALSE]
    BY DEF Init, TimerInit
  <1> DEFINE none == [i \in 1 .. 0 |-> NoFB]
  <1>2. 1 .. 0 = {} OBVIOUS
  <1>3. IsList(none, 0, NoFB, mNext) /\ SortedBy(none, 0, mTimeOut) /\ Members(none, 0) = {}
    BY <1>2 DEF IsList, SortedBy, Members
  <1> HIDE DEF none
  <1>4. TwoLists(none, 0, none, 0) BY <1>1, <1>3 DEF TwoLists
  <1>5. ListInv BY <1>4 DEF ListInv
  <1>6. TimedEntries = {} /\ AddEntries = {} BY <1>3, <1>4, ListsAre
  <1>7. Len(pending) = 0 /\ pending \in Seq(FB) BY <1>1
  <1>8. PendingOnce /\ Waiting = {} BY <1>2, <1>7, WaitingIs DEF PendingOnce
  <1>9. Leaving = {} BY <1>1 DEF Leaving, ToBeRemoved
  <1>10. ASSUME NEW f \in FB PROVE Block(f)
    <2>1. ~mActive[f] /\ registering # f BY <1>1, NoFBAssumption
    <2> QED BY <1>6, <1>8, <1>9, <2>1
            DEF Block, LeavingInv, AddedInv, ActiveInv, WaitingInv, RegisteringInv, TimeOutInv
  <1> QED BY <1>5, <1>8, <1>10, TypeInit DEF IInv

\* ... and is kept by every step, if the application is considerate.
LEMMA StepIInv ==
  ASSUME Considerate
  PROVE  IInv /\ [Next]_vars => IInv'
  <1> SUFFICES ASSUME IInv, [Next]_vars PROVE IInv' OBVIOUS
  <1>1. CASE Tick BY <1>1, StepTick
  <1>2. CASE ServeTick /\ UNCHANGED <<fbVars, history>>
    BY <1>2, StepCheck, StepRemove, StepTimed, StepAdd DEF ServeTick
  <1>3. CASE EndRegister BY <1>3, StepEndRegister
  <1>4. ASSUME NEW f \in FB, NEW dt \in Delays, StartEvent(f, dt) \/ RestartEvent(f, dt)
        PROVE IInv'
    BY <1>4, StepStart
  <1>5. ASSUME NEW f \in FB, StopEvent(f) \/ ManagementStop(f) \/ ManagementStart(f)
        PROVE IInv'
    BY <1>5, StepStop
  <1>6. ASSUME NEW f \in FB, ExternalEvent(f) \/ IgnoredEvent(f) PROVE IInv'
    BY <1>6, StepEvent
  <1>7. CASE UNCHANGED vars
    <2>1. TypeInv' BY <1>7, TypeStep DEF IInv
    <2>2. ListInv' /\ TimedEntries' = TimedEntries /\ AddEntries' = AddEntries
      BY <1>7, SameEffect DEF vars, IInv
    <2>3. Waiting' = Waiting /\ Leaving' = Leaving /\ PendingOnce'
      BY <1>7 DEF vars, IInv, Waiting, Leaving, IsPending, ToBeRemoved, PendingOnce
    <2>4. ASSUME NEW g \in FB PROVE Block(g)'
      <3>1. Alike(g) BY <1>7, <2>2, <2>3 DEF vars, Alike
      <3> QED BY <1>7, <3>1, Untouched DEF vars, IInv
    <2> QED BY <2>1, <2>2, <2>3, <2>4 DEF IInv
  <1> QED BY <1>1, <1>2, <1>3, <1>4, <1>5, <1>6, <1>7 DEF Next

\* The invariant of the timer handler and its blocks, for any number of blocks, any delays
\* and any bound on the time.
THEOREM Invariance ==
  ASSUME Considerate
  PROVE  Spec => []IInv
  BY InitIInv, StepIInv, PTL DEF Spec

\* No entry is ever on both lists of the timer handler or linked into a circle, and the timed
\* list stays in the order of the time-outs: the while loops of timerha.cpp end, and
\* processTimedFBList may stop at the first entry that is not due.
THEOREM ListsStaySound ==
  ASSUME Considerate
  PROVE  Spec => []ListsSound
  <1>1. IInv => ListsSound
    <2> SUFFICES ASSUME IInv PROVE ListsSound OBVIOUS
    <2>1. PICK t, n, a, m : TwoLists(t, n, a, m) BY DEF IInv, ListInv
    <2>2. Ends(mTimedFBList, mNext) /\ Ends(mAddFBList, mNext) BY <2>1, ListsAre
    <2>3. /\ TimedEntries \cap AddEntries = {}
          /\ \A f \in TimedEntries : mNext[f] # NoFB => mTimeOut[f] <= mTimeOut[mNext[f]]
      BY HeadFacts DEF IInv, TypeInv
    <2> QED BY <2>2, <2>3 DEF ListsSound
  <1> QED BY <1>1, Invariance, PTL

\* When nextTick has returned no entry of the timed list is overdue.
THEOREM NeverOverdue ==
  ASSUME Considerate
  PROVE  Spec => []NothingOverdue
  <1>1. IInv => NothingOverdue
    <2> SUFFICES ASSUME IInv, tick = "idle", NEW f \in TimedEntries
                 PROVE  mTimeOut[f] >= mForteTime
      BY DEF NothingOverdue
    <2>1. f \in FB BY HeadFacts DEF IInv, TypeInv
    <2> QED BY <2>1 DEF IInv, Block, TimeOutInv
  <1> QED BY <1>1, Invariance, PTL

\* mActive of CTimedFB and the timer handler's lists agree, whatever the interleaving of the
\* event chain, management and the timer task.
THEOREM FlagsMatchLists ==
  ASSUME Considerate
  PROVE  Spec => []ActiveMeansListed
  <1>1. IInv => ActiveMeansListed
    <2> SUFFICES ASSUME IInv, NEW f \in FB
                 PROVE  /\ mActive[f] /\ ~IsPending(f) /\ registering # f
                             => f \in TimedEntries \cup AddEntries
                        /\ tick = "idle" /\ ~mActive[f] /\ ~ToBeRemoved(f)
                             => f \notin TimedEntries \cup AddEntries
      BY DEF ActiveMeansListed
    <2>1. Block(f) BY DEF IInv
    <2>2. (f \in Waiting <=> IsPending(f)) /\ (f \in Leaving <=> ToBeRemoved(f))
      BY DEF Waiting, Leaving
    <2> QED BY <2>1, <2>2 DEF Block, ActiveInv, AddedInv
  <1> QED BY <1>1, Invariance, PTL

\* The block that sends EO has its event in line.
LEMMA SenderWaits ==
  ASSUME IInv, NEW f \in FB, SendsEO(f)
  PROVE  f \in Waiting /\ Block(f)
  <1>1. pending # <<>> /\ Head(pending) = f /\ pending' = Tail(pending) BY DEF SendsEO
  <1>2. Head(pending) \in Waiting BY <1>1, EventTaken DEF IInv, TypeInv, TickTyped
  <1> QED BY <1>1, <1>2 DEF IInv

\* No E_CYCLE and no E_DELAY sends EO before the delay or cycle time since its last START has
\* passed, in a system of any number of them that get their commands at least a served tick
\* apart and whose expiries are executed before the next tick.  An E_RDELAY whose START comes
\* while it is active breaks the property (run timed_fb_restart): the theorem is about systems
\* that have none.
THEOREM NeverEarly ==
  ASSUME \A f \in FB : Kind[f] # "E_RDELAY",
         Spaced, Prompt, Cardinality(FB) <= MaxPending
  PROVE  Spec => EONotEarly
  <1>1. IInv /\ [Next]_vars => [\A f \in FB : SendsEO(f) => mForteTime >= due[f]]_vars
    <2> SUFFICES ASSUME IInv, NEW f \in FB, SendsEO(f) PROVE mForteTime >= due[f] OBVIOUS
    <2>1. due[f] <= mForteTime BY SenderWaits DEF Block, WaitingInv
    <2>2. due[f] \in Nat /\ mForteTime \in Nat
      BY DEF IInv, TypeInv, EntriesTyped, BlockTyped
    <2> QED BY <2>1, <2>2
  <1>2. Considerate BY DEF Considerate, NeverRestarted
  <1> QED BY <1>1, <1>2, Invariance, PTL DEF Spec, EONotEarly

\* A stopped block sends EO at most in the tick in which it was stopped.
THEOREM SilentOnceStopped ==
  ASSUME Considerate
  PROVE  Spec => StoppedFallsSilent
  <1>1. IInv /\ [Next]_vars =>
          [\A f \in FB : SendsEO(f) => mActive[f] \/ commanded[f] = mForteTime]_vars
    <2> SUFFICES ASSUME IInv, NEW f \in FB, SendsEO(f)
                 PROVE  mActive[f] \/ commanded[f] = mForteTime
      OBVIOUS
    <2> QED BY SenderWaits DEF Block, WaitingInv
  <1> QED BY <1>1, Invariance, PTL DEF Spec, StoppedFallsSilent
=============================================================================
