------------------------- MODULE ConnectionsProofs -------------------------
(***************************************************************************)
(* Theorems about Connections, for any blocks, ports and types: the types  *)
(* hold whatever the manager does, the two ends of the connections agree   *)
(* for a manager that gives no input a second source and deletes no block  *)
(* that is still connected.                                                *)
(***************************************************************************)
EXTENDS Connections, SequenceTheorems, TLAPS

(* Sequences without repetition, as destination lists are: one more value, *)
(* a value taken back and a value removed.                                 *)
LEMMA AppendNew ==
  ASSUME NEW S, NEW q \in Seq(S), IsInjective(q), NEW e \in S, e \notin Range(q)
  PROVE  /\ Append(q, e) \in Seq(S) /\ IsInjective(Append(q, e))
         /\ Range(Append(q, e)) = Range(q) \cup {e}
<1>1. /\ Append(q, e) \in Seq(S) /\ Len(Append(q, e)) = Len(q) + 1
      /\ \A n \in 1..Len(q) : Append(q, e)[n] = q[n]
      /\ Append(q, e)[Len(q) + 1] = e
      /\ DOMAIN q = 1..Len(q) /\ DOMAIN Append(q, e) = 1..(Len(q) + 1)
      /\ Len(q) \in Nat
  OBVIOUS
<1>2. IsInjective(Append(q, e))
  BY <1>1 DEF IsInjective, Range
<1>3. Range(Append(q, e)) = Range(q) \cup {e}
  BY <1>1 DEF Range
<1> QED  BY <1>1, <1>2, <1>3

LEMMA TailDistinct ==
  ASSUME NEW S, NEW q \in Seq(S), q # <<>>, IsInjective(q)
  PROVE  Tail(q) \in Seq(S) /\ IsInjective(Tail(q))
<1>1. /\ Tail(q) \in Seq(S) /\ Len(Tail(q)) = Len(q) - 1 /\ Len(q) \in Nat
      /\ \A n \in 1..(Len(q) - 1) : Tail(q)[n] = q[n + 1]
      /\ DOMAIN q = 1..Len(q) /\ DOMAIN Tail(q) = 1..(Len(q) - 1)
  OBVIOUS
<1>2. IsInjective(Tail(q))
  BY <1>1 DEF IsInjective
<1> QED  BY <1>1, <1>2

LEMMA RemovedOnce ==
  ASSUME NEW S, NEW q \in Seq(S), IsInjective(q), NEW e \in Range(q)
  PROVE  /\ RemoveFirst(q, e) \in Seq(S) /\ IsInjective(RemoveFirst(q, e))
         /\ Range(RemoveFirst(q, e)) = Range(q) \ {e}
<1>1. PICK k \in 1..Len(q) : q[k] = e
  BY DEF Range
<1>2. SelectInSeq(q, LAMBDA v : v = e) = k
  <2>1. {i \in 1..Len(q) : q[i] = e} = {k}
    BY <1>1 DEF IsInjective
  <2>2. Min({k}) = k
    BY <1>1 DEF Min
  <2> QED  BY <2>1, <2>2 DEF SelectInSeq
<1> DEFINE r == SubSeq(q, 1, k - 1) \o SubSeq(q, k + 1, Len(q))
<1>3. RemoveFirst(q, e) = r
  BY <1>1, <1>2 DEF RemoveFirst, RemoveAt
<1>4. /\ r \in Seq(S) /\ Len(r) = Len(q) - 1 /\ Len(q) \in Nat
      /\ \A n \in 1..(Len(q) - 1) : r[n] = IF n < k THEN q[n] ELSE q[n + 1]
      /\ DOMAIN q = 1..Len(q) /\ DOMAIN r = 1..(Len(q) - 1)
  <2> DEFINE a == SubSeq(q, 1, k - 1)
             b == SubSeq(q, k + 1, Len(q))
  <2>1. /\ a \in Seq(S) /\ Len(a) = k - 1 /\ \A n \in 1..(k - 1) : a[n] = q[n]
    BY <1>1
  <2>2. /\ b \in Seq(S) /\ Len(b) = Len(q) - k
        /\ \A n \in 1..(Len(q) - k) : b[n] = q[k + n]
    BY <1>1
  <2> HIDE DEF a, b
  <2>3. /\ a \o b \in Seq(S) /\ Len(a \o b) = Len(a) + Len(b)
        /\ \A n \in 1..(Len(a) + Len(b)) :
             (a \o b)[n] = IF n <= Len(a) THEN a[n] ELSE b[n - Len(a)]
    BY <2>1, <2>2, ConcatProperties
  <2>4. /\ r = a \o b /\ Len(q) \in Nat /\ k \in 1..Len(q)
        /\ DOMAIN q = 1..Len(q) /\ DOMAIN (a \o b) = 1..Len(a \o b)
    BY <1>1, <2>3 DEF a, b
  <2> HIDE DEF r
  <2>5. Len(r) = Len(q) - 1
    <3>1. Len(a) + Len(b) = (k - 1) + (Len(q) - k)
      BY <2>1, <2>2
    <3>2. (k - 1) + (Len(q) - k) = Len(q) - 1
      BY <2>4
    <3>3. Len(r) = Len(a) + Len(b)
      BY <2>3, <2>4
    <3> QED  BY <3>1, <3>2, <3>3
  <2>6. ASSUME NEW n \in 1..(Len(q) - 1)
        PROVE  r[n] = IF n < k THEN q[n] ELSE q[n + 1]
    <3>1. CASE n < k
      BY <2>1, <2>2, <2>3, <2>4, <3>1
    <3>2. CASE ~(n < k)
      <4>1. n - Len(a) \in 1..(Len(q) - k) /\ k + (n - Len(a)) = n + 1
        BY <2>1, <2>4, <3>2
      <4>2. r[n] = b[n - Len(a)]
        BY <2>1, <2>2, <2>3, <2>4, <3>2
      <4> QED  BY <2>2, <3>2, <4>1, <4>2
    <3> QED  BY <3>1, <3>2
  <2> QED  BY <2>3, <2>4, <2>5, <2>6
<1> HIDE DEF r
<1> DEFINE Place(n) == IF n < k THEN n ELSE n + 1
<1>p. ASSUME NEW n \in DOMAIN r
      PROVE  Place(n) \in DOMAIN q \ {k} /\ r[n] = q[Place(n)] /\ n \in Int
  BY <1>1, <1>4
<1>5. IsInjective(r)
  <2> SUFFICES ASSUME NEW m \in DOMAIN r, NEW n \in DOMAIN r, r[m] = r[n]
               PROVE  m = n
    BY DEF IsInjective
  <2>1. q[Place(m)] = q[Place(n)]
    BY <1>p
  <2> HIDE DEF Place
  <2>2. Place(m) = Place(n)
    BY <1>p, <2>1 DEF IsInjective
  <2>3. m \in Int /\ n \in Int /\ k \in Int
    BY <1>p, <1>1
  <2> QED  BY <2>2, <2>3 DEF Place
<1>6. Range(r) \subseteq Range(q) \ {e}
  <2> SUFFICES ASSUME NEW n \in DOMAIN r PROVE r[n] \in Range(q) \ {e}
    BY DEF Range
  <2>1. Place(n) \in DOMAIN q /\ Place(n) # k /\ r[n] = q[Place(n)]
    BY <1>p
  <2> HIDE DEF Place
  <2>2. q[Place(n)] # q[k]
    BY <1>1, <1>4, <2>1 DEF IsInjective
  <2> QED  BY <1>1, <2>1, <2>2 DEF Range
<1>7. ASSUME NEW x \in Range(q) \ {e} PROVE x \in Range(r)
  <2>1. PICK n \in 1..Len(q) : q[n] = x /\ n # k
    BY <1>1, <1>4, <1>7 DEF Range
  <2>2. CASE n < k
    <3>1. n \in 1..(Len(q) - 1) /\ r[n] = x
      BY <1>1, <1>4, <2>1, <2>2
    <3> QED  BY <1>4, <3>1 DEF Range
  <2>3. CASE n > k
    <3>1. n - 1 \in 1..(Len(q) - 1) /\ r[n - 1] = x
      BY <1>1, <1>4, <2>1, <2>3
    <3> QED  BY <1>4, <3>1 DEF Range
  <2> QED  BY <1>1, <2>1, <2>2, <2>3
<1> QED  BY <1>3, <1>4, <1>5, <1>6, <1>7

-----------------------------------------------------------------------------
LEMMA TypesOfPorts ==
  ASSUME TypeOK, NEW s \in Source, NEW i \in Input
  PROVE  /\ ValueAfter(s, i) \in DataTypes \cup {"ANY"}
         /\ DestinationsConfigured(s, i) \in [Input -> DataTypes \cup {"ANY"}]
         /\ PointersAfter(s, i) \in [Input -> Source \cup {NoConnection}]
BY DEF TypeOK, ValueAfter, Configured, DestinationsConfigured, PointersAfter

LEMMA ConnectTypes ==
  ASSUME TypeOK, NEW s \in Source, NEW i \in Input, Connect(s, i)
  PROVE  TypeOK'
<1>1. mFBState' = mFBState /\ mValueType' \in [Source -> DataTypes \cup {"ANY"}]
  BY TypesOfPorts DEF Connect, TypeOK
<1>2. mSpecialCast' \in [Source -> BOOLEAN]
  BY DEF Connect, TypeOK, SpecialCastAfter, IsCastable
<1>3. /\ mDIConn' \in [Input -> Source \cup {NoConnection}]
      /\ mDIType' \in [Input -> DataTypes \cup {"ANY"}]
      /\ answered' \subseteq Source \X Input
  <2>1. \A t \in DataTypes \cup {"ANY"} : Configured(t, ValueAfter(s, i)) \in DataTypes \cup {"ANY"}
    BY TypesOfPorts DEF Configured
  <2>2. /\ mDIConn' \in {PointersAfter(s, i), [PointersAfter(s, i) EXCEPT ![i] = s]}
        /\ mDIType' \in {DestinationsConfigured(s, i),
                         [DestinationsConfigured(s, i) EXCEPT ![i] = Configured(@, ValueAfter(s, i))]}
        /\ answered' \in {answered, answered \cup {<<s, i>>}}
    BY DEF Connect, ConnectEffect
  <2>3. DestinationsConfigured(s, i)[i] \in DataTypes \cup {"ANY"}
    BY TypesOfPorts
  <2>4. mDIConn' \in [Input -> Source \cup {NoConnection}]
    BY <2>2, TypesOfPorts
  <2>5. mDIType' \in [Input -> DataTypes \cup {"ANY"}]
    <3> DEFINE types == DestinationsConfigured(s, i)
               t == Configured(types[i], ValueAfter(s, i))
    <3>1. types \in [Input -> DataTypes \cup {"ANY"}] /\ t \in DataTypes \cup {"ANY"}
      BY <2>1, <2>3, TypesOfPorts
    <3>2. mDIType' \in {types, [types EXCEPT ![i] = t]}
      BY <2>2
    <3> HIDE DEF types, t
    <3> QED  BY <3>1, <3>2
  <2>6. answered' \subseteq Source \X Input
    BY <2>2 DEF TypeOK
  <2> QED  BY <2>4, <2>5, <2>6
<1>4. /\ mDestinationIds' \in [Source -> Seq(Input)]
      /\ \A t \in Source : IsInjective(mDestinationIds'[t])
  <2>1. CASE ~Admitted(s, i) \/ DstExists(s, i)
    BY <2>1 DEF Connect, ConnectEffect, TypeOK
  <2>2. CASE Admitted(s, i) /\ ~DstExists(s, i)
    <3> DEFINE added == Append(mDestinationIds[s], i)
    <3>1. added \in Seq(Input) /\ IsInjective(added) /\ added # <<>>
      <4>1. /\ mDestinationIds[s] \in Seq(Input) /\ IsInjective(mDestinationIds[s])
            /\ i \notin Range(mDestinationIds[s])
        BY <2>2 DEF TypeOK, DstExists, Destinations
      <4>2. added \in Seq(Input) /\ IsInjective(added)
        BY <4>1, AppendNew
      <4> QED  BY <4>1, <4>2, AppendProperties
    <3>2. Tail(added) \in Seq(Input) /\ IsInjective(Tail(added))
      BY <3>1, TailDistinct
    <3>3. \/ mDestinationIds' = [mDestinationIds EXCEPT ![s] = Tail(added)]
          \/ mDestinationIds' = [mDestinationIds EXCEPT ![s] = added]
      BY <2>2 DEF Connect, ConnectEffect
    <3> QED  BY <3>1, <3>2, <3>3 DEF TypeOK
  <2> QED  BY <2>1, <2>2
<1> QED  BY <1>1, <1>2, <1>3, <1>4 DEF TypeOK

LEMMA DisconnectTypes ==
  ASSUME TypeOK, NEW s \in Source, NEW i \in Input, Disconnect(s, i)
  PROVE  TypeOK'
<1>1. /\ RemoveFirst(mDestinationIds[s], i) \in Seq(Input)
      /\ IsInjective(RemoveFirst(mDestinationIds[s], i))
  BY RemovedOnce DEF Disconnect, TypeOK, Destinations
<1> QED  BY <1>1 DEF Disconnect, TypeOK, PointerCleared

LEMMA CreateTypes ==
  ASSUME TypeOK, NEW f \in FB, CreateFB(f)
  PROVE  TypeOK'
<1>1. IsInjective(<<>>)
  BY DEF IsInjective
<1>2. /\ mFBState' \in [FB -> {"none", "RUNNING", "IDLE", "STOPPED", "KILLED"}]
      /\ mValueType' \in [Source -> DataTypes \cup {"ANY"}]
      /\ mSpecialCast' \in [Source -> BOOLEAN]
      /\ mDIConn' \in [Input -> Source \cup {NoConnection}]
      /\ mDIType' \in [Input -> DataTypes \cup {"ANY"}]
      /\ answered' \subseteq Source \X Input
  BY ConnectionAssumption DEF CreateFB, TypeOK
<1>3. mDestinationIds' \in [Source -> Seq(Input)]
  BY DEF CreateFB, TypeOK
<1>4. \A s \in Source : IsInjective(mDestinationIds'[s])
  BY <1>1 DEF CreateFB, TypeOK
<1> QED  BY <1>2, <1>3, <1>4 DEF TypeOK

LEMMA TypeStep == TypeOK /\ [Next]_vars => TypeOK'
<1> SUFFICES ASSUME TypeOK, [Next]_vars PROVE TypeOK'
  OBVIOUS
<1>1. ASSUME NEW f \in FB, DeleteFB(f) PROVE TypeOK'
  BY <1>1 DEF DeleteFB, TypeOK
<1>2. ASSUME NEW f \in FB, NEW c, ChangeFBExecutionState(f, c) PROVE TypeOK'
  <2>1. NextState(c, mFBState[f]) \in {"none", "RUNNING", "IDLE", "STOPPED", "KILLED"}
    BY DEF NextState, TypeOK
  <2> QED  BY <1>2, <2>1 DEF ChangeFBExecutionState, portVars, TypeOK
<1>3. CASE UNCHANGED vars
  BY <1>3 DEF vars, TypeOK
<1> QED
  BY <1>1, <1>2, <1>3, ConnectTypes, DisconnectTypes, CreateTypes DEF Next

LEMMA TypeStart == Init => TypeOK
<1> SUFFICES ASSUME Init PROVE TypeOK
  OBVIOUS
<1>1. \A s \in Source : mDestinationIds[s] = <<>> /\ IsInjective(<<>>)
  BY DEF Init, IsInjective
<1>2. mDestinationIds \in [Source -> Seq(Input)]
  BY DEF Init
<1> QED  BY <1>1, <1>2, ConnectionAssumption DEF Init, TypeOK

(* Types hold, and no destination list ever holds an input twice, whatever *)
(* commands the manager gives.                                             *)
THEOREM TypeCorrect == Spec => []TypeOK
BY TypeStart, TypeStep, PTL DEF Spec

-----------------------------------------------------------------------------
(* The inductive invariant is EndsAgree itself, over the types: an input   *)
(* with another source would be refused, so the manager's promise means    *)
(* that no connect it makes is taken back.                                 *)
EndsInv == TypeOK /\ EndsAgree

LEMMA PointersUnmoved ==
  ASSUME EndsInv, NEW s \in Source, NEW i \in Input, Exists(s)
  PROVE  PointersAfter(s, i) = mDIConn
<1>1. ASSUME NEW d \in Destinations(s) PROVE mDIConn[d] = s /\ s # NoConnection
  <2>1. d \in Input
    BY <1>1 DEF EndsInv, TypeOK, Destinations, Range
  <2> QED  BY <1>1, <2>1, ConnectionAssumption DEF EndsInv, EndsAgree
<1> QED  BY <1>1 DEF PointersAfter, EndsInv, TypeOK

LEMMA EndsConnect ==
  ASSUME EndsInv, SingleSource, NEW s \in Source, NEW i \in Input, Connect(s, i)
  PROVE  EndsAgree'
<1> USE DEF EndsInv
<1>1. Exists(s) /\ Exists(i) /\ mFBState' = mFBState /\ SourcesOf(i) \subseteq {s}
  BY DEF Connect
<1>2. PointersAfter(s, i) = mDIConn
  BY <1>1, PointersUnmoved DEF EndsAgree
<1>3. \A p \in Source \cup Input : Exists(p)' = Exists(p)
  BY <1>1 DEF Exists
<1>4. mDIConn[i] \in {s, NoConnection}
  BY <1>1 DEF EndsAgree, SourcesOf, TypeOK
<1>5. ~Refused(s, i)
  BY <1>2, <1>4 DEF Refused
<1>6. CASE ~Admitted(s, i) \/ DstExists(s, i)
  <2>1. mDestinationIds' = mDestinationIds /\ mDIConn' = mDIConn /\ answered' = answered
    BY <1>2, <1>6 DEF Connect, ConnectEffect
  <2> QED  BY <2>1, <1>3 DEF EndsAgree, Destinations
<1>7. CASE Admitted(s, i) /\ ~DstExists(s, i)
  <2>1. /\ mDestinationIds' = [mDestinationIds EXCEPT ![s] = Append(mDestinationIds[s], i)]
        /\ mDIConn' = [mDIConn EXCEPT ![i] = s]
        /\ answered' = answered \cup {<<s, i>>}
    BY <1>2, <1>5, <1>7 DEF Connect, ConnectEffect
  <2>2. Range(Append(mDestinationIds[s], i)) = Destinations(s) \cup {i}
    BY <1>7, AppendNew DEF TypeOK, DstExists, Destinations
  <2>3. \A t \in Source : Destinations(t)' =
          IF t = s THEN Destinations(s) \cup {i} ELSE Destinations(t)
    BY <2>1, <2>2 DEF TypeOK, Destinations
  <2>4. \A d \in Input : mDIConn'[d] = IF d = i THEN s ELSE mDIConn[d]
    BY <2>1 DEF TypeOK
  <2>5. \A t \in Source, d \in Input : <<t, d>> \in answered' <=> <<t, d>> \in answered \/ (t = s /\ d = i)
    BY <2>1
  <2>6. \A t \in Source : t # s => <<t, i>> \notin answered
    BY <1>1 DEF SourcesOf
  <2> SUFFICES ASSUME NEW t \in Source, NEW d \in Input
               PROVE  /\ (Exists(t)' /\ d \in Destinations(t)') <=> <<t, d>> \in answered'
                      /\ (Exists(d)' /\ mDIConn'[d] = t) <=> <<t, d>> \in answered'
    BY DEF EndsAgree
  <2> /\ (Exists(t) /\ d \in Destinations(t)) <=> <<t, d>> \in answered
      /\ (Exists(d) /\ mDIConn[d] = t) <=> <<t, d>> \in answered
    BY DEF EndsAgree
  <2> QED  BY <1>1, <1>3, <2>3, <2>4, <2>5, <2>6
<1> QED  BY <1>6, <1>7

LEMMA EndsDisconnect ==
  ASSUME EndsInv, NEW s \in Source, NEW i \in Input, Disconnect(s, i)
  PROVE  EndsAgree'
<1> USE DEF EndsInv
<1>1. /\ Exists(s) /\ Exists(i) /\ mFBState' = mFBState /\ i \in Destinations(s)
      /\ mDestinationIds' = [mDestinationIds EXCEPT ![s] = RemoveFirst(mDestinationIds[s], i)]
      /\ mDIConn' = [mDIConn EXCEPT ![i] = NoConnection]
      /\ answered' = answered \ {<<s, i>>}
  BY DEF Disconnect, PointerCleared
<1>2. Range(RemoveFirst(mDestinationIds[s], i)) = Destinations(s) \ {i}
  BY <1>1, RemovedOnce DEF TypeOK, Destinations
<1>3. \A t \in Source : Destinations(t)' =
        IF t = s THEN Destinations(s) \ {i} ELSE Destinations(t)
  BY <1>1, <1>2 DEF TypeOK, Destinations
<1>4. \A d \in Input : mDIConn'[d] = IF d = i THEN NoConnection ELSE mDIConn[d]
  BY <1>1 DEF TypeOK
<1>5. \A t \in Source, d \in Input : <<t, d>> \in answered' <=> <<t, d>> \in answered /\ ~(t = s /\ d = i)
  BY <1>1
<1>6. mDIConn[i] = s
  BY <1>1 DEF EndsAgree
<1>7. \A p \in Source \cup Input : Exists(p)' = Exists(p)
  BY <1>1 DEF Exists
<1> SUFFICES ASSUME NEW t \in Source, NEW d \in Input
             PROVE  /\ (Exists(t)' /\ d \in Destinations(t)') <=> <<t, d>> \in answered'
                    /\ (Exists(d)' /\ mDIConn'[d] = t) <=> <<t, d>> \in answered'
  BY DEF EndsAgree
<1> /\ (Exists(t) /\ d \in Destinations(t)) <=> <<t, d>> \in answered
    /\ (Exists(d) /\ mDIConn[d] = t) <=> <<t, d>> \in answered
  BY DEF EndsAgree
<1> QED  BY <1>1, <1>3, <1>4, <1>5, <1>6, <1>7, ConnectionAssumption

LEMMA EndsCreate ==
  ASSUME EndsInv, NEW f \in FB, CreateFB(f)
  PROVE  EndsAgree'
<1> USE DEF EndsInv
<1>1. \A p \in Source \cup Input : /\ Exists(p)' = (Exists(p) \/ p \in Ports(f))
                                   /\ p \in Ports(f) => ~Exists(p)
  BY ConnectionAssumption DEF CreateFB, Exists, Ports, TypeOK
<1>2. \A t \in Source : Destinations(t)' = IF t \in Ports(f) THEN {} ELSE Destinations(t)
  BY DEF CreateFB, Destinations, Range
<1>3. \A d \in Input : mDIConn'[d] = IF d \in Ports(f) THEN NoConnection ELSE mDIConn[d]
  BY DEF CreateFB
<1>4. answered' = answered
  BY DEF CreateFB
<1> SUFFICES ASSUME NEW t \in Source, NEW d \in Input
             PROVE  /\ (Exists(t)' /\ d \in Destinations(t)') <=> <<t, d>> \in answered'
                    /\ (Exists(d)' /\ mDIConn'[d] = t) <=> <<t, d>> \in answered'
  BY DEF EndsAgree
<1> /\ (Exists(t) /\ d \in Destinations(t)) <=> <<t, d>> \in answered
    /\ (Exists(d) /\ mDIConn[d] = t) <=> <<t, d>> \in answered
  BY DEF EndsAgree
<1> QED  BY <1>1, <1>2, <1>3, <1>4, ConnectionAssumption

LEMMA EndsDelete ==
  ASSUME EndsInv, DisconnectFirst, NEW f \in FB, DeleteFB(f)
  PROVE  EndsAgree'
<1> USE DEF EndsInv
<1>1. ~Connected(f) /\ UNCHANGED <<mDestinationIds, mDIConn>>
  BY DEF DeleteFB
<1>2. answered' = answered
  BY <1>1 DEF DeleteFB, Connected
<1>3. \A p \in Source \cup Input : Exists(p)' = (Exists(p) /\ Owner[p] # f)
  BY ConnectionAssumption DEF DeleteFB, Exists, TypeOK
<1>4. \A t \in Source, d \in Input : <<t, d>> \in answered => Owner[t] # f /\ Owner[d] # f
  BY <1>1 DEF Connected
<1> QED  BY <1>1, <1>2, <1>3, <1>4 DEF EndsAgree, Destinations

LEMMA EndsStep ==
  ASSUME SingleSource, DisconnectFirst
  PROVE  EndsInv /\ [Next]_vars => EndsInv'
<1> SUFFICES ASSUME EndsInv, [Next]_vars PROVE EndsAgree'
  BY TypeStep DEF EndsInv
<1>1. ASSUME NEW f \in FB, NEW c, ChangeFBExecutionState(f, c) PROVE EndsAgree'
  <2>1. \A p \in Source \cup Input : Exists(p)' = Exists(p)
    BY <1>1, ConnectionAssumption
       DEF ChangeFBExecutionState, NextState, Exists, EndsInv, TypeOK
  <2> QED  BY <1>1, <2>1 DEF ChangeFBExecutionState, portVars, EndsInv, EndsAgree, Destinations
<1>2. CASE UNCHANGED vars
  BY <1>2 DEF vars, EndsInv, EndsAgree, Destinations, Exists
<1> QED
  BY <1>1, <1>2, EndsConnect, EndsDisconnect, EndsCreate, EndsDelete DEF Next

(* For a manager that keeps both promises, what it was answered, what the  *)
(* connections list and what the inputs point to stay the same set of      *)
(* connections (establishDataConnection, disconnect, createFB, deleteFB).  *)
THEOREM EndsAlwaysAgree ==
  ASSUME SingleSource, DisconnectFirst
  PROVE  Spec => []EndsAgree
<1>1. Init => EndsInv
  <2> SUFFICES ASSUME Init PROVE EndsAgree
    BY TypeStart DEF EndsInv
  <2> QED  BY ConnectionAssumption DEF Init, EndsAgree, Exists
<1>2. EndsInv => EndsAgree
  BY DEF EndsInv
<1> QED  BY <1>1, <1>2, EndsStep, PTL DEF Spec

(* Under the same promises no existing block ever points to a deleted one: *)
(* readData and writeData follow these pointers unchecked.                 *)
THEOREM NothingDangles ==
  ASSUME SingleSource, DisconnectFirst
  PROVE  Spec => []NoDanglingEnd
<1>1. TypeOK /\ EndsAgree => NoDanglingEnd
  <2> SUFFICES ASSUME TypeOK, EndsAgree PROVE NoDanglingEnd
    OBVIOUS
  <2>1. \A s \in Source : Destinations(s) \subseteq Input
    BY DEF TypeOK, Destinations, Range
  <2>2. \A i \in Input : mDIConn[i] \in Source \cup {NoConnection}
    BY DEF TypeOK
  <2> QED  BY <2>1, <2>2 DEF EndsAgree, NoDanglingEnd
<1> QED  BY <1>1, TypeCorrect, EndsAlwaysAgree, PTL
-----------------------------------------------------------------------------
(* Types: an input fed by a connection has the connection's type settled   *)
(* with it (handleAnySrcPortConnection), or one that was found castable.   *)
\* ValuesConvert is inductive over EndsInv.

\* The special cast of floating point values, if nothing else is ever tried.
Numeric == {"REAL", "LREAL", "INT", "ANY"}
CastsAgree ==
  /\ \A s \in Source : mValueType[s] \in Numeric
  /\ \A i \in Input : mDIType[i] \in Numeric
  /\ FloatsConverted

\* What a connect does to the types, given the promises.
LEMMA TypesConnect ==
  ASSUME EndsInv, SingleSource, ValuesConvert,
         NEW s \in Source, NEW i \in Input, Connect(s, i)
  PROVE  /\ mValueType' = [mValueType EXCEPT ![s] = ValueAfter(s, i)]
         /\ \A d \in Input : mDIType'[d] =
              IF d = i THEN IF Admitted(s, i) THEN Configured(mDIType[i], ValueAfter(s, i))
                            ELSE mDIType[i]
              ELSE IF <<s, d>> \in answered THEN Configured(mDIType[d], ValueAfter(s, i))
              ELSE mDIType[d]
         /\ answered' = IF Admitted(s, i) THEN answered \cup {<<s, i>>} ELSE answered
         /\ \A t \in Source : <<t, i>> \in answered => t = s
<1>1. /\ mValueType' = [mValueType EXCEPT ![s] = ValueAfter(s, i)]
      /\ \A t \in Source : <<t, i>> \in answered => t = s
  BY DEF Connect, SourcesOf
<1>2. /\ Exists(s) /\ Exists(i)
      /\ \A d \in Input : d \in Destinations(s) <=> <<s, d>> \in answered
      /\ \A d \in Input : <<s, d>> \in answered => mDIConn[d] = s
  BY DEF Connect, EndsInv, EndsAgree
<1>3. /\ mDIType \in [Input -> DataTypes \cup {"ANY"}] /\ mDIConn[i] \in {s, NoConnection}
      /\ mDIConn \in [Input -> Source \cup {NoConnection}]
  BY <1>1, <1>2 DEF EndsInv, TypeOK, EndsAgree
<1>4. ~Refused(s, i)
  BY <1>2, <1>3, PointersUnmoved DEF Refused
<1>5. \A d \in Input : DestinationsConfigured(s, i)[d] =
        IF <<s, d>> \in answered THEN Configured(mDIType[d], ValueAfter(s, i)) ELSE mDIType[d]
  <2>1. CASE mValueType[s] = "ANY"
    BY <1>2, <2>1 DEF DestinationsConfigured
  <2>2. CASE mValueType[s] # "ANY"
    <3>1. \A d \in Input : <<s, d>> \in answered => mDIType[d] # "ANY"
      BY <2>2 DEF ValuesConvert
    <3> QED  BY <2>2, <3>1 DEF DestinationsConfigured, Configured
  <2> QED  BY <2>1, <2>2
<1>6. DestinationsConfigured(s, i) \in [Input -> DataTypes \cup {"ANY"}]
  BY TypesOfPorts DEF EndsInv
<1>7. CASE ~Admitted(s, i) \/ DstExists(s, i)
  <2>1. mDIType' = DestinationsConfigured(s, i) /\ answered' = answered
    BY <1>7 DEF Connect, ConnectEffect
  <2>2. CASE DstExists(s, i)
    <3>1. <<s, i>> \in answered /\ answered \cup {<<s, i>>} = answered
      BY <1>2, <2>2 DEF DstExists
    <3>2. ~Admitted(s, i) => mDIType[i] # "ANY"
      BY <3>1 DEF ValuesConvert, Admitted
    <3> QED  BY <1>1, <1>5, <2>1, <3>1, <3>2 DEF Configured
  <2>3. CASE ~Admitted(s, i) /\ ~DstExists(s, i)
    BY <1>1, <1>2, <1>5, <2>1, <2>3 DEF DstExists
  <2> QED  BY <1>7, <2>2, <2>3
<1>8. CASE Admitted(s, i) /\ ~DstExists(s, i)
  <2>1. /\ mDIType' = [DestinationsConfigured(s, i) EXCEPT ![i] = Configured(@, ValueAfter(s, i))]
        /\ answered' = answered \cup {<<s, i>>}
    BY <1>4, <1>8 DEF Connect, ConnectEffect
  <2>2. DestinationsConfigured(s, i)[i] = mDIType[i]
    BY <1>2, <1>5, <1>8 DEF DstExists
  <2> HIDE DEF DestinationsConfigured
  <2>3. \A d \in Input : mDIType'[d] =
          IF d = i THEN Configured(mDIType[i], ValueAfter(s, i))
                   ELSE DestinationsConfigured(s, i)[d]
    BY <1>6, <2>1, <2>2
  <2> QED  BY <1>1, <1>5, <1>8, <2>1, <2>3
<1> QED  BY <1>7, <1>8

LEMMA ConnectConverts ==
  ASSUME EndsInv, SingleSource, ValuesConvert,
         NEW s \in Source, NEW i \in Input, Connect(s, i)
  PROVE  ValuesConvert'
<1> SUFFICES ASSUME NEW t \in Source, NEW d \in Input, <<t, d>> \in answered'
             PROVE  IF mValueType'[t] = "ANY" THEN mDIType'[d] = "ANY"
                    ELSE mDIType'[d] # "ANY" /\ CanBeConnected(mValueType'[t], mDIType'[d])
  BY DEF ValuesConvert
<1>1. mValueType \in [Source -> DataTypes \cup {"ANY"}]
  BY DEF EndsInv, TypeOK
<1>2. CASE t # s
  <2>1. <<t, d>> \in answered /\ d # i /\ mValueType'[t] = mValueType[t]
    BY <1>1, <1>2, TypesConnect
  <2>2. <<s, d>> \notin answered
    BY <1>2, <2>1, ConnectionAssumption DEF EndsInv, EndsAgree
  <2> QED  BY <2>1, <2>2, TypesConnect DEF ValuesConvert
<1>3. CASE t = s /\ d # i
  <2>1. /\ <<s, d>> \in answered /\ mValueType'[s] = ValueAfter(s, i)
        /\ mDIType'[d] = Configured(mDIType[d], ValueAfter(s, i))
    BY <1>1, <1>3, TypesConnect
  <2> QED  BY <1>3, <2>1 DEF ValuesConvert, Configured, ValueAfter, CanBeConnected
<1>4. CASE t = s /\ d = i
  <2>1. mValueType'[s] = ValueAfter(s, i) /\ (Admitted(s, i) \/ <<s, i>> \in answered)
    BY <1>1, <1>4, TypesConnect
  <2>2. CASE Admitted(s, i)
    <3>1. mDIType'[i] = Configured(mDIType[i], ValueAfter(s, i))
      BY <2>2, TypesConnect
    <3> QED  BY <1>4, <2>1, <2>2, <3>1 DEF Admitted, Configured, ValueAfter, CanBeConnected
  <2>3. CASE ~Admitted(s, i)
    BY <2>1, <2>3 DEF ValuesConvert, Admitted
  <2> QED  BY <2>2, <2>3
<1> QED  BY <1>2, <1>3, <1>4

LEMMA ConnectCasts ==
  ASSUME EndsInv, SingleSource, ValuesConvert, CastsAgree,
         NEW s \in Source, NEW i \in Input, Connect(s, i)
  PROVE  CastsAgree'
<1>1. /\ mValueType \in [Source -> DataTypes \cup {"ANY"}]
      /\ mSpecialCast \in [Source -> BOOLEAN]
  BY DEF EndsInv, TypeOK
<1>2. ValueAfter(s, i) \in Numeric
  BY DEF CastsAgree, FloatsConverted, ValueAfter, Configured
<1>3. \A t \in Source : mValueType'[t] \in Numeric
  BY <1>1, <1>2, TypesConnect DEF CastsAgree, FloatsConverted
<1>4. \A d \in Input : mDIType'[d] \in Numeric
  <2> SUFFICES ASSUME NEW d \in Input PROVE mDIType'[d] \in Numeric
    OBVIOUS
  <2>1. mDIType'[d] = mDIType[d] \/ mDIType'[d] = Configured(mDIType[d], ValueAfter(s, i))
    <3>1. CASE d = i
      BY <3>1, TypesConnect
    <3>2. CASE d # i /\ <<s, d>> \in answered
      BY <3>2, TypesConnect
    <3>3. CASE d # i /\ <<s, d>> \notin answered
      BY <3>3, TypesConnect
    <3> QED  BY <3>1, <3>2, <3>3
  <2> QED  BY <1>2, <2>1 DEF CastsAgree, FloatsConverted, Configured
<1>5. ASSUME NEW t \in Source, NEW d \in Input,
             <<t, d>> \in answered', mValueType'[t] \in Reals, mDIType'[d] = "INT"
      PROVE  mSpecialCast'[t]
  <2>1. CASE t # s
    <3>1. <<t, d>> \in answered /\ d # i /\ mValueType'[t] = mValueType[t]
      BY <1>1, <1>5, <2>1, TypesConnect
    <3>2. <<s, d>> \notin answered
      BY <2>1, <3>1, ConnectionAssumption DEF EndsInv, EndsAgree
    <3>3. mDIType[d] = "INT" /\ mSpecialCast'[t] = mSpecialCast[t]
      BY <1>1, <1>5, <2>1, <3>1, <3>2, TypesConnect DEF Connect
    <3> QED  BY <1>5, <3>1, <3>3 DEF CastsAgree, FloatsConverted
  <2>2. CASE t = s /\ mValueType[s] = "ANY"
    \* All inputs then have the type of the connection.
    <3>1. mValueType'[s] = ValueAfter(s, i) /\ Admitted(s, i)
      BY <1>1, <2>2, TypesConnect DEF Admitted
    <3>2. ValueAfter(s, i) \in Reals /\ (<<s, d>> \in answered => mDIType[d] = "ANY")
      BY <1>5, <2>2, <3>1 DEF ValuesConvert
    <3>3. mDIType'[d] = ValueAfter(s, i)
      <4>1. CASE d = i
        BY <2>2, <3>1, <3>2, <4>1, TypesConnect DEF ValueAfter, Configured
      <4>2. CASE d # i
        <5>1. <<s, d>> \in answered
          BY <1>5, <2>2, <4>2, TypesConnect
        <5> QED  BY <3>2, <4>2, <5>1, TypesConnect DEF Configured
      <4> QED  BY <4>1, <4>2
    <3> QED  BY <1>5, <3>2, <3>3 DEF Reals
  <2>3. CASE t = s /\ mValueType[s] # "ANY"
    <3>1. ValueAfter(s, i) = mValueType[s] /\ mValueType[s] \in Reals
      BY <1>1, <1>5, <2>3, TypesConnect DEF ValueAfter, Configured
    <3>2. mSpecialCast'[s] = SpecialCastAfter(mValueType[s], mDIType[i], mSpecialCast[s])
      BY <1>1, <2>3 DEF Connect
    <3>3. mDIType[i] \in Numeric /\ mSpecialCast[s] \in BOOLEAN
      BY <1>1 DEF CastsAgree, FloatsConverted
    <3>4. mSpecialCast[s] => mSpecialCast'[s]
      BY <3>1, <3>2, <3>3 DEF SpecialCastAfter, IsCastable, Numeric, Reals
    <3>5. CASE <<s, d>> \in answered
      <4>1. mDIType[d] # "ANY"
        BY <2>3, <3>5 DEF ValuesConvert
      <4>2. mDIType[d] = "INT"
        BY <1>5, <3>5, <4>1, TypesConnect DEF Configured
      <4> QED  BY <2>3, <3>1, <3>4, <3>5, <4>2 DEF CastsAgree, FloatsConverted
    <3>6. CASE <<s, d>> \notin answered
      <4>1. d = i /\ mDIType'[i] = Configured(mDIType[i], ValueAfter(s, i))
        BY <1>5, <2>3, <3>6, TypesConnect
      <4>2. mDIType[i] = "INT"
        BY <1>5, <3>1, <4>1 DEF Configured, Reals
      <4> QED  BY <2>3, <3>1, <3>2, <4>2 DEF SpecialCastAfter, IsCastable, Reals
    <3> QED  BY <3>5, <3>6
  <2> QED  BY <2>1, <2>2, <2>3
<1> QED  BY <1>3, <1>4, <1>5 DEF CastsAgree, FloatsConverted

\* The other commands: what is connected keeps its types and its flag.
LEMMA OthersConvert ==
  ASSUME EndsInv, EndsInv', ValuesConvert, [Next]_vars,
         ~\E s \in Source, i \in Input : Connect(s, i)
  PROVE  /\ ValuesConvert'
         /\ (\A p \in Source \cup Input : Declared[p] \in Numeric) /\ CastsAgree => CastsAgree'
<1>1. CASE \E f \in FB : CreateFB(f)
  <2> PICK f \in FB : CreateFB(f)
    BY <1>1
  <2>1. /\ answered' = answered /\ ~(mFBState[f] # "none")
        /\ \A s \in Source : /\ mValueType'[s] = IF Owner[s] = f THEN Declared[s] ELSE mValueType[s]
                             /\ Owner[s] # f => mSpecialCast'[s] = mSpecialCast[s]
        /\ \A i \in Input : mDIType'[i] = IF Owner[i] = f THEN Declared[i] ELSE mDIType[i]
    BY DEF CreateFB, Ports, EndsInv, TypeOK
  <2>2. \A s \in Source, i \in Input : <<s, i>> \in answered => Owner[s] # f /\ Owner[i] # f
    BY <2>1 DEF EndsInv, EndsAgree, Exists
  <2> QED  BY <2>1, <2>2 DEF ValuesConvert, CastsAgree, FloatsConverted
<1>2. CASE ~\E f \in FB : CreateFB(f)
  <2>1. UNCHANGED <<mValueType, mSpecialCast, mDIType>> /\ answered' \subseteq answered
    BY <1>2 DEF Next, vars, portVars, Disconnect, DeleteFB, ChangeFBExecutionState
  <2> QED  BY <2>1 DEF ValuesConvert, CastsAgree, FloatsConverted
<1> QED  BY <1>1, <1>2

(* Whatever types the ports are declared with, whatever is attempted and   *)
(* refused, and in whatever order generic blocks are connected: an input   *)
(* fed by a connection whose type is settled has a type that the table of  *)
(* CIEC_ANY::isCastable lets the value be read into.                       *)
THEOREM ValuesAlwaysConvert ==
  ASSUME SingleSource, DisconnectFirst
  PROVE  Spec => []ValuesConvert
<1>1. Init => EndsInv /\ ValuesConvert
  <2> SUFFICES ASSUME Init PROVE EndsAgree /\ ValuesConvert
    BY TypeStart DEF EndsInv
  <2> QED  BY ConnectionAssumption DEF Init, EndsAgree, Exists, ValuesConvert
<1>2. EndsInv /\ ValuesConvert /\ [Next]_vars => (EndsInv /\ ValuesConvert)'
  BY EndsStep, ConnectConverts, OthersConvert
<1> QED  BY <1>1, <1>2, PTL DEF Spec

(* A floating point value is read into an integer input by a cast, never   *)
(* copied, in an application all of whose ports are numeric or generic:    *)
(* canBeConnected sets the flag of a connection for the last input tried,  *)
(* and every pair of numeric types leaves it right for all of them.        *)
THEOREM FloatsAlwaysConverted ==
  ASSUME SingleSource, DisconnectFirst,
         \A p \in Source \cup Input : Declared[p] \in Numeric
  PROVE  Spec => []FloatsConverted
<1>1. Init => EndsInv /\ ValuesConvert
  <2> SUFFICES ASSUME Init PROVE EndsAgree /\ ValuesConvert
    BY TypeStart DEF EndsInv
  <2> QED  BY ConnectionAssumption DEF Init, EndsAgree, Exists, ValuesConvert
<1>2. EndsInv /\ ValuesConvert /\ [Next]_vars => (EndsInv /\ ValuesConvert)'
  BY EndsStep, ConnectConverts, OthersConvert
<1>3. Init => CastsAgree
  BY DEF Init, CastsAgree, FloatsConverted
<1>4. EndsInv /\ EndsInv' /\ ValuesConvert /\ CastsAgree /\ [Next]_vars => CastsAgree'
  BY ConnectCasts, OthersConvert
<1>5. CastsAgree => FloatsConverted
  BY DEF CastsAgree
<1> QED  BY <1>1, <1>2, <1>3, <1>4, <1>5, PTL DEF Spec
=============================================================================
