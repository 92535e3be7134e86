----------------------- MODULE EventConnectionsProofs -----------------------
(***************************************************************************)
(* Theorems about EventConnections, for any blocks, ports and adapters.    *)
(***************************************************************************)
EXTENDS EventConnections, TLAPS

(* What holds of the adapters between any two commands.  A plug knows no   *)
(* socket but its connection's destination; a socket's peer is the plug of *)
(* its connection; a connection joins blocks that exist.                   *)
PlugsKnow ==
  \A p \in Plug : peer[p] \in {None, dest[p]} /\ sock[p] \in {None, dest[p]}

SocketsKnow ==
  \A s \in Socket :
    /\ peer[s] = conn[s]
    /\ conn[s] # None => dest[conn[s]] = s /\ sock[conn[s]] = s /\ peer[conn[s]] = s

EndsExist ==
  \A p \in Plug : dest[p] # None => Exists(p) /\ Exists(dest[p])

AdapterTypes ==
  /\ exists \subseteq FB
  /\ peer \in [Adapter -> Adapter \cup {None}]
  /\ conn \in [Socket -> Plug \cup {None}]
  /\ dest \in [Plug -> Socket \cup {None}]
  /\ sock \in [Plug -> Socket \cup {None}]

AdapterInv == AdapterTypes /\ PlugsKnow /\ SocketsKnow /\ EndsExist

LEMMA AdapterInit == Init => AdapterInv
BY WiringAssumption
   DEF Init, AdapterInv, AdapterTypes, PlugsKnow, SocketsKnow, EndsExist, Adapter

(* A connection made, or refused by an adapter that is taken.              *)
LEMMA AdapterConnected ==
  ASSUME AdapterInv, NEW p \in Plug, NEW s \in Socket, ConnectAdapter(p, s)
  PROVE  AdapterInv'
<1> USE DEF AdapterInv, Adapter
<1>1. AdapterTypes'
  BY DEF AdapterTypes, ConnectAdapter, GivenUp
<1>2. CASE Established(p, s)
  <2>1. /\ peer' = [peer EXCEPT ![p] = s, ![s] = p]
        /\ conn' = [conn EXCEPT ![s] = p]
        /\ sock' = [sock EXCEPT ![p] = s]
        /\ dest' = [dest EXCEPT ![p] = s]
        /\ exists' = exists
    BY <1>2 DEF ConnectAdapter
  <2>2. PlugsKnow'
    BY <2>1, WiringAssumption DEF PlugsKnow, AdapterTypes
  <2>3. SocketsKnow'
    BY <1>2, <2>1, WiringAssumption DEF SocketsKnow, AdapterTypes, Established
  <2>4. EndsExist'
    BY <2>1, WiringAssumption DEF EndsExist, Exists, AdapterTypes, ConnectAdapter
  <2> QED  BY <1>1, <2>2, <2>3, <2>4
<1>3. CASE ~Established(p, s)
  <2>1. /\ peer' = [peer EXCEPT ![p] = None, ![s] = None]
        /\ conn' = GivenUp({s})
        /\ sock' = sock /\ dest' = dest /\ exists' = exists /\ dest[p] = None
    BY <1>3 DEF ConnectAdapter
  <2>2. PlugsKnow'
    BY <2>1, WiringAssumption DEF PlugsKnow, AdapterTypes
  <2>3. SocketsKnow'
    BY <2>1, WiringAssumption DEF SocketsKnow, AdapterTypes, GivenUp
  <2>4. EndsExist'
    BY <2>1 DEF EndsExist, Exists
  <2> QED  BY <1>1, <2>2, <2>3, <2>4
<1> QED  BY <1>2, <1>3

(* Plugs disconnected, with their connections' destinations removed or     *)
(* none before.                                                            *)
LEMMA AdapterDisconnected ==
  ASSUME AdapterInv, NEW plugs \in SUBSET Plug, PerformDisconnect(plugs),
         dest' = [p \in Plug |-> IF p \in plugs THEN None ELSE dest[p]]
  PROVE  /\ AdapterTypes /\ PlugsKnow' /\ SocketsKnow'
         /\ peer' \in [Adapter -> Adapter \cup {None}]
         /\ conn' \in [Socket -> Plug \cup {None}]
         /\ sock' \in [Plug -> Socket \cup {None}]
<1> USE DEF AdapterInv, Adapter
<1> DEFINE sockets == UNION {OwnSocket(p) : p \in plugs}
           unpeered == UNION {Unpeered(p) : p \in plugs}
<1>1. \A s \in Socket : s \in sockets <=> \E p \in plugs : sock[p] = s /\ conn[s] = p
  BY DEF OwnSocket
<1>2. \A a \in Adapter : a \in unpeered <=> a \in plugs \/ a \in sockets
  BY WiringAssumption DEF Unpeered, OwnSocket
<1>3. /\ peer' = [a \in Adapter |-> IF a \in unpeered THEN None ELSE peer[a]]
      /\ conn' = [s \in Socket |-> IF s \in sockets THEN None ELSE conn[s]]
      /\ sock' = [p \in Plug |-> IF p \in plugs THEN None ELSE sock[p]]
  BY DEF PerformDisconnect, GivenUp
<1> HIDE DEF sockets, unpeered
<1>4. /\ peer' \in [Adapter -> Adapter \cup {None}]
      /\ conn' \in [Socket -> Plug \cup {None}]
      /\ sock' \in [Plug -> Socket \cup {None}]
  BY <1>3 DEF AdapterTypes
<1>5. PlugsKnow'
  <2> SUFFICES ASSUME NEW p \in Plug
               PROVE  peer'[p] \in {None, dest'[p]} /\ sock'[p] \in {None, dest'[p]}
    BY DEF PlugsKnow
  <2>1. p \notin sockets
    BY WiringAssumption DEF sockets, OwnSocket
  <2> QED  BY <1>2, <1>3, <2>1 DEF PlugsKnow
<1>6. SocketsKnow'
  <2> SUFFICES ASSUME NEW s \in Socket
               PROVE  /\ peer'[s] = conn'[s]
                      /\ conn'[s] # None => /\ dest'[conn'[s]] = s /\ sock'[conn'[s]] = s
                                            /\ peer'[conn'[s]] = s
    BY DEF SocketsKnow
  <2>1. s \notin plugs
    BY WiringAssumption
  <2>2. peer'[s] = conn'[s]
    BY <1>2, <1>3, <2>1 DEF SocketsKnow
  <2>3. ASSUME conn'[s] # None
        PROVE  /\ dest'[conn'[s]] = s /\ sock'[conn'[s]] = s /\ peer'[conn'[s]] = s
    <3>1. conn'[s] = conn[s] /\ s \notin sockets /\ conn[s] # None /\ conn[s] \in Plug
      BY <1>3, <2>3 DEF AdapterTypes
    <3>2. sock[conn[s]] = s /\ dest[conn[s]] = s /\ peer[conn[s]] = s
      BY <3>1 DEF SocketsKnow
    <3>3. conn[s] \notin plugs
      BY <1>1, <3>1, <3>2
    <3>4. conn[s] \notin sockets
      BY <3>1, WiringAssumption DEF sockets, OwnSocket
    <3> QED  BY <1>2, <1>3, <3>1, <3>2, <3>3, <3>4
  <2> QED  BY <2>2, <2>3
<1> QED  BY <1>4, <1>5, <1>6

LEMMA AdapterStep == AdapterInv /\ [Next]_vars => AdapterInv'
<1> SUFFICES ASSUME AdapterInv, [Next]_vars PROVE AdapterInv'
  OBVIOUS
<1> USE DEF AdapterInv
<1>1. ASSUME adapterVars' = adapterVars, exists \subseteq exists', exists' \subseteq FB
      PROVE  AdapterInv'
  BY <1>1 DEF adapterVars, AdapterTypes, PlugsKnow, SocketsKnow, EndsExist, Exists
<1>2. CASE Thread
  <2>1. UNCHANGED wiringVars
    BY <1>2 DEF Thread, StartEventChain, ReceiveInputEvent, TriggerNext, QueueAdapterEvent,
                Return, TriggerEvent, SendAdapterEvent
  <2> QED  BY <1>1, <2>1 DEF wiringVars, AdapterTypes
<1>3. ASSUME NEW e \in Output, NEW i \in Input, ConnectEvent(e, i) \/ DisconnectEvent(e, i)
      PROVE  AdapterInv'
  BY <1>1, <1>3 DEF ConnectEvent, DisconnectEvent, AdapterTypes
<1>4. ASSUME NEW p \in Plug, NEW s \in Socket, ConnectAdapter(p, s)
      PROVE  AdapterInv'
  BY <1>4, AdapterConnected
<1>5. ASSUME NEW p \in Plug, NEW s \in Socket, DisconnectAdapter(p, s)
      PROVE  AdapterInv'
  <2>1. /\ PerformDisconnect({p}) /\ exists' = exists
        /\ dest' = [q \in Plug |-> IF q \in {p} THEN None ELSE dest[q]]
    BY <1>5 DEF DisconnectAdapter, AdapterTypes
  <2>2. /\ AdapterTypes /\ PlugsKnow' /\ SocketsKnow'
        /\ peer' \in [Adapter -> Adapter \cup {None}]
        /\ conn' \in [Socket -> Plug \cup {None}]
        /\ sock' \in [Plug -> Socket \cup {None}]
    BY <2>1, AdapterDisconnected
  <2> QED  BY <2>1, <2>2 DEF AdapterTypes, EndsExist, Exists
<1>6. ASSUME NEW f \in FB, CreateFB(f)
      PROVE  AdapterInv'
  BY <1>1, <1>6 DEF CreateFB, AdapterTypes
<1>7. ASSUME NEW f \in FB, ChangeFBExecutionState(f)
      PROVE  AdapterInv'
  BY <1>1, <1>7 DEF ChangeFBExecutionState, AdapterTypes
<1>8. ASSUME NEW f \in FB, DeleteFB(f)
      PROVE  AdapterInv'
  <2> DEFINE plugs == {p \in Plug : Owner[p] = f}
  <2>1. /\ PerformDisconnect(plugs) /\ exists' = exists \ {f} /\ dest' = dest
        /\ \A p \in Plug : dest[p] # None => f \notin {Owner[p], Owner[dest[p]]}
    BY <1>8 DEF DeleteFB, Connected
  <2>2. dest' = [p \in Plug |-> IF p \in plugs THEN None ELSE dest[p]]
    BY <2>1 DEF AdapterTypes
  <2>3. /\ AdapterTypes /\ PlugsKnow' /\ SocketsKnow'
        /\ peer' \in [Adapter -> Adapter \cup {None}]
        /\ conn' \in [Socket -> Plug \cup {None}]
        /\ sock' \in [Plug -> Socket \cup {None}]
    BY <2>1, <2>2, AdapterDisconnected
  <2> QED  BY <2>1, <2>3 DEF AdapterTypes, EndsExist, Exists
<1>9. CASE UNCHANGED vars
  BY <1>1, <1>9 DEF vars, AdapterTypes
<1> QED  BY <1>2, <1>3, <1>4, <1>5, <1>6, <1>7, <1>8, <1>9 DEF Next, Manager

THEOREM AdaptersSound == Spec => []AdapterInv
<1> QED  BY AdapterInit, AdapterStep, PTL DEF Spec

(* A socket that has a connection has it with both ends, however often     *)
(* other plugs are connected to it (CAdapterConnection::connect).          *)
THEOREM SocketAlwaysBacked == Spec => []SocketBacked
<1>1. AdapterInv => SocketBacked
  BY WiringAssumption DEF AdapterInv, AdapterTypes, SocketsKnow, SocketBacked, Adapter
<1> QED  BY <1>1, AdaptersSound, PTL

LEMMA PeersExist == AdapterInv => NoDanglingPeer
  <1> SUFFICES ASSUME AdapterInv PROVE NoDanglingPeer
    OBVIOUS
  <1> USE DEF AdapterInv, Adapter
  <1>1. \A p \in Plug : peer[p] # None => Exists(peer[p])
    BY DEF PlugsKnow, EndsExist
  <1>2. \A p \in Plug : sock[p] # None => Exists(sock[p])
    BY DEF PlugsKnow, EndsExist
  <1>3. \A s \in Socket : conn[s] # None => Exists(conn[s]) /\ Exists(s)
    BY WiringAssumption DEF SocketsKnow, EndsExist, AdapterTypes
  <1>4. \A s \in Socket : peer[s] # None => Exists(peer[s])
    BY <1>3 DEF SocketsKnow
  <1> QED  BY <1>1, <1>2, <1>3, <1>4 DEF NoDanglingPeer

(* No adapter or adapter connection of an existing block refers to a block *)
(* that is gone, if the manager deletes no block still connected.          *)
THEOREM NoDanglingPeers == Spec => []NoDanglingPeer
<1> QED  BY PeersExist, AdaptersSound, PTL

(* A manager who connects no plug to a socket in use keeps every adapter   *)
(* connection he was answered: no command on one connection disturbs       *)
(* another (CAdapterConnection::connect, performDisconnect).               *)
LEMMA ConnectedStep ==
  ASSUME "second" \notin Rough, AdapterInv, ConnectedBothWays, [Next]_vars
  PROVE  ConnectedBothWays'
<1> USE DEF AdapterInv, Adapter
<1>1. ASSUME adapterVars' = adapterVars PROVE ConnectedBothWays'
  BY <1>1 DEF adapterVars, ConnectedBothWays
<1>2. ASSUME NEW p \in Plug, NEW s \in Socket, ConnectAdapter(p, s)
      PROVE  ConnectedBothWays'
  <2>1. /\ peer' = [peer EXCEPT ![p] = s, ![s] = p]
        /\ conn' = [conn EXCEPT ![s] = p]
        /\ sock' = [sock EXCEPT ![p] = s]
        /\ dest' = [dest EXCEPT ![p] = s]
        /\ peer[s] = None
    BY <1>2 DEF ConnectAdapter, Established
  <2>2. \A q \in Plug : dest[q] # s
    BY <2>1, WiringAssumption DEF ConnectedBothWays
  <2>3. SUFFICES ASSUME NEW q \in Plug, NEW t \in Socket, dest'[q] = t
                 PROVE  peer'[q] = t /\ sock'[q] = t /\ peer'[t] = q /\ conn'[t] = q
    BY DEF ConnectedBothWays
  <2>4. CASE q = p
    BY <2>1, <2>3, <2>4, WiringAssumption DEF AdapterTypes
  <2>5. CASE q # p
    BY <2>1, <2>2, <2>3, <2>5, WiringAssumption DEF AdapterTypes, ConnectedBothWays
  <2> QED  BY <2>4, <2>5
<1>3. ASSUME NEW plugs \in SUBSET Plug, PerformDisconnect(plugs),
             \A p \in Plug \ plugs : dest'[p] = dest[p],
             \A p \in plugs : dest'[p] = None
      PROVE  ConnectedBothWays'
  <2> SUFFICES ASSUME NEW q \in Plug, NEW t \in Socket, dest'[q] = t
               PROVE  peer'[q] = t /\ sock'[q] = t /\ peer'[t] = q /\ conn'[t] = q
    BY DEF ConnectedBothWays
  <2>1. q \notin plugs /\ dest[q] = t
    BY <1>3, WiringAssumption
  <2>2. peer[q] = t /\ sock[q] = t /\ peer[t] = q /\ conn[t] = q
    BY <2>1 DEF ConnectedBothWays
  <2>3. \A p \in plugs : t \notin OwnSocket(p) /\ q \notin OwnSocket(p)
    BY <2>1, <2>2, WiringAssumption DEF OwnSocket
  <2>4. \A p \in plugs : t \notin Unpeered(p) /\ q \notin Unpeered(p)
    BY <2>1, <2>3, WiringAssumption DEF Unpeered
  <2> QED  BY <1>3, <2>1, <2>2, <2>3, <2>4 DEF PerformDisconnect, GivenUp
<1>4. ASSUME NEW p \in Plug, NEW s \in Socket, DisconnectAdapter(p, s)
      PROVE  ConnectedBothWays'
  <2>1. /\ PerformDisconnect({p}) /\ \A q \in Plug \ {p} : dest'[q] = dest[q]
        /\ \A q \in {p} : dest'[q] = None
    BY <1>4 DEF DisconnectAdapter, AdapterTypes
  <2> QED  BY <1>3, <2>1
<1>5. ASSUME NEW f \in FB, DeleteFB(f)
      PROVE  ConnectedBothWays'
  <2> DEFINE plugs == {p \in Plug : Owner[p] = f}
  <2>1. /\ PerformDisconnect(plugs) /\ dest' = dest /\ \A p \in plugs : dest[p] = None
    BY <1>5 DEF DeleteFB, Connected
  <2> QED  BY <1>3, <2>1
<1>6. ASSUME UNCHANGED wiringVars \/ UNCHANGED vars \/ UNCHANGED adapterVars
      PROVE  ConnectedBothWays'
  BY <1>1, <1>6 DEF wiringVars, vars
<1>7. CASE Thread
  BY <1>6, <1>7 DEF Thread, StartEventChain, ReceiveInputEvent, TriggerNext, QueueAdapterEvent,
                    Return, TriggerEvent, SendAdapterEvent
<1>8. ASSUME NEW e \in Output, NEW i \in Input, ConnectEvent(e, i) \/ DisconnectEvent(e, i)
      PROVE  ConnectedBothWays'
  BY <1>6, <1>8 DEF ConnectEvent, DisconnectEvent
<1>9. ASSUME NEW f \in FB, CreateFB(f) \/ ChangeFBExecutionState(f)
      PROVE  ConnectedBothWays'
  BY <1>6, <1>9 DEF CreateFB, ChangeFBExecutionState
<1> QED  BY <1>2, <1>4, <1>5, <1>6, <1>7, <1>8, <1>9 DEF Next, Manager

(* A connection that was answered is there at both adapters, as long as no *)
(* plug is connected to a socket in use.                                   *)
THEOREM ConnectionsStay ==
  ASSUME "second" \notin Rough PROVE Spec => []ConnectedBothWays
<1>1. Init => ConnectedBothWays
  BY WiringAssumption DEF Init, ConnectedBothWays, Adapter
<1> QED  BY <1>1, ConnectedStep, AdapterInit, AdapterStep, PTL DEF Spec

-----------------------------------------------------------------------------
(* A list without one of its elements: those behind it move up by one.     *)
LEMMA RemovedHolds ==
  ASSUME NEW S, NEW s \in Seq(S), NEW i \in Range(s)
  PROVE  LET k == PlaceIn(s, i) r == Removed(s, i)
         IN /\ k \in 1..Len(s) /\ s[k] = i /\ r \in Seq(S) /\ Len(r) = Len(s) - 1
            /\ \A j \in 1..Len(s) - 1 : r[j] = IF j < k THEN s[j] ELSE s[j + 1]
<1> DEFINE k == PlaceIn(s, i)
           a == SubSeq(s, 1, k - 1)
           b == SubSeq(s, k + 1, Len(s))
           r == Removed(s, i)
<1>1. k \in 1..Len(s) /\ s[k] = i
  BY DEF Range, PlaceIn
<1>2. r = a \o b
  BY DEF Removed, RemoveAt
<1> HIDE DEF k, r
<1>3. a \in Seq(S) /\ Len(a) = k - 1 /\ \A j \in 1..k - 1 : a[j] = s[j]
  BY <1>1
<1>4. b \in Seq(S) /\ Len(b) = Len(s) - k /\ \A j \in 1..Len(s) - k : b[j] = s[k + j]
  BY <1>1
<1> HIDE DEF a, b
<1>5. /\ r \in Seq(S) /\ Len(r) = Len(a) + Len(b)
      /\ \A j \in 1..Len(a) : r[j] = a[j]
      /\ \A j \in 1..Len(b) : r[Len(a) + j] = b[j]
  <2>1. a \in Seq(S) /\ b \in Seq(S)
    BY <1>3, <1>4
  <2>2. /\ a \o b \in Seq(S) /\ Len(a \o b) = Len(a) + Len(b)
        /\ \A j \in 1..Len(a) : (a \o b)[j] = a[j]
        /\ \A j \in 1..Len(b) : (a \o b)[Len(a) + j] = b[j]
    BY <2>1
  <2> QED  BY <1>2, <2>2, Zenon
<1>6. ASSUME NEW j \in 1..Len(s) - 1
      PROVE  r[j] = IF j < k THEN s[j] ELSE s[j + 1]
  <2>1. CASE j < k
    BY <1>1, <1>3, <1>5, <2>1
  <2>2. CASE ~(j < k)
    <3>1. /\ j - (k - 1) \in 1..Len(s) - k
          /\ k + (j - (k - 1)) = j + 1 /\ (k - 1) + (j - (k - 1)) = j
      BY <1>1, <2>2
    <3>2. r[(k - 1) + (j - (k - 1))] = b[j - (k - 1)]
      BY <1>3, <1>4, <1>5, <3>1
    <3>3. b[j - (k - 1)] = s[k + (j - (k - 1))]
      BY <1>4, <3>1
    <3> QED  BY <2>2, <3>1, <3>2, <3>3
  <2> QED  BY <2>1, <2>2
<1> QED  BY <1>1, <1>3, <1>4, <1>5, <1>6 DEF k, r

LEMMA RemovedKeeps ==
  ASSUME mDestinationIds \in [Output -> Seq(Input)],
         NEW e \in Output, NEW i \in Range(mDestinationIds[e]),
         mDestinationIds' = [mDestinationIds EXCEPT ![e] = Removed(@, i)]
  PROVE  \A d \in Output : \A x \in Range(mDestinationIds[d]) :
           d # e \/ x # i => x \in Range(mDestinationIds'[d])
<1> DEFINE s == mDestinationIds[e]
           r == Removed(s, i)
           k == PlaceIn(s, i)
<1>1. s \in Seq(Input) /\ i \in Range(s)
  OBVIOUS
<1>2. /\ k \in 1..Len(s) /\ s[k] = i /\ r \in Seq(Input) /\ Len(r) = Len(s) - 1
      /\ \A j \in 1..Len(s) - 1 : r[j] = IF j < k THEN s[j] ELSE s[j + 1]
  BY <1>1, RemovedHolds
<1> HIDE DEF s, r, k
<1>3. ASSUME NEW x \in Range(s), x # i PROVE x \in Range(r)
  <2>1. PICK n \in 1..Len(s) : s[n] = x
    BY <1>1, <1>3 DEF Range
  <2>2. CASE n < k
    <3>1. n \in 1..Len(s) - 1 /\ r[n] = x
      BY <1>1, <1>2, <2>1, <2>2
    <3> QED  BY <1>2, <3>1 DEF Range
  <2>3. CASE n > k
    <3>1. n - 1 \in 1..Len(s) - 1 /\ ~(n - 1 < k) /\ (n - 1) + 1 = n
      BY <1>1, <1>2, <2>1, <2>3
    <3>2. n - 1 \in 1..Len(r) /\ r[n - 1] = x
      BY <1>2, <2>1, <3>1
    <3> QED  BY <1>2, <3>2 DEF Range
  <2> QED  BY <1>2, <1>3, <2>1, <2>2, <2>3
<1>4. mDestinationIds'[e] = r /\ \A d \in Output : d # e => mDestinationIds'[d] = mDestinationIds[d]
  BY DEF r, s
<1> QED  BY <1>3, <1>4 DEF s

(* triggerEvent stands on a node its connection has.                       *)
Standing == it \in Node => it[2] \in Destinations(it[1])

\* The list has a free slot until its end has come to stand on a filled one.
RoomLeft == ~full => Len(mEventList) < QueueSize

TypeInv == TypeOK /\ Standing /\ RoomLeft

LEMMA TypeInit == Init => TypeInv
<1>1. Init => RoomLeft
  BY WiringAssumption DEF Init, RoomLeft
<1>2. Init => TypeOK /\ Standing
  <2> SUFFICES ASSUME Init PROVE TypeOK /\ Standing
    OBVIOUS
  <2>1. mEventList \in Seq(Node \cup Own \cup {Freed}) /\ Len(mEventList) <= QueueSize
    BY WiringAssumption DEF Init
  <2>2. Standing
    BY WiringAssumption DEF Init, Standing, Node
  <2>3. full \in BOOLEAN /\ exists \subseteq FB /\ running \subseteq exists /\ owed \subseteq Input
    BY DEF Init
  <2>4. /\ mDestinationIds \in [Output -> Seq(Input)]
        /\ peer \in [Adapter -> Adapter \cup {None}]
        /\ conn \in [Socket -> Plug \cup {None}]
        /\ dest \in [Plug -> Socket \cup {None}] /\ sock \in [Plug -> Socket \cup {None}]
    BY DEF Init
  <2>5. at = None /\ it = None
    BY DEF Init
  <2> QED  BY <2>1, <2>2, <2>3, <2>4, <2>5 DEF TypeOK
<1> QED  BY <1>1, <1>2 DEF TypeInv

LEMMA NextNode ==
  ASSUME TypeInv, it \in Node
  PROVE  Successor(it) \in Node \cup {None}
<1> DEFINE list == mDestinationIds[it[1]]
           k == Place(it)
<1>1. list \in Seq(Input) /\ it[1] \in Output /\ it[2] \in Range(list)
  BY DEF Node, TypeInv, TypeOK, Standing, Destinations
<1>2. k \in 1..Len(list)
  BY <1>1 DEF Place, PlaceIn, Range
<1> HIDE DEF k
<1>3. CASE k < Len(list)
  BY <1>1, <1>2, <1>3 DEF Successor, HasNext, Node, k
<1>4. CASE ~(k < Len(list))
  BY <1>4 DEF Successor, HasNext, k
<1> QED  BY <1>3, <1>4

LEMMA TypeStep == TypeInv /\ [Next]_vars => TypeOK' /\ RoomLeft'
<1> SUFFICES ASSUME TypeInv, [Next]_vars PROVE TypeOK' /\ RoomLeft'
  OBVIOUS
<1> USE DEF TypeOK, TypeInv, RoomLeft, Adapter
<1>1. ASSUME NEW E, Free(E)
      PROVE  /\ mEventList' \in Seq(Node \cup Own \cup {Freed}) /\ Len(mEventList') = Len(mEventList)
             /\ it' \in Node \cup (Adapter \X Adapter) \cup {None, Freed}
  <2>1. /\ DOMAIN mEventList' = 1..Len(mEventList)
        /\ \A k \in 1..Len(mEventList) : mEventList'[k] \in Node \cup Own \cup {Freed}
        /\ mEventList' = [k \in 1..Len(mEventList) |-> mEventList'[k]]
    BY <1>1 DEF Free
  <2>2. mEventList' \in [1..Len(mEventList) -> Node \cup Own \cup {Freed}]
    BY <2>1
  <2> HIDE DEF TypeOK, TypeInv, RoomLeft, Adapter
  <2>3. Len(mEventList') = Len(mEventList) /\ mEventList' \in Seq(Node \cup Own \cup {Freed})
    BY <2>2
  <2> QED  BY <1>1, <2>3 DEF Free, TypeOK, TypeInv, Adapter
<1>2. ASSUME NEW n \in Node \cup Own, AddEventEntry(n)
      PROVE  mEventList' \in Seq(Node \cup Own \cup {Freed}) /\ Len(mEventList') <= QueueSize
             /\ full' \in BOOLEAN /\ RoomLeft'
  <2>1. /\ Append(mEventList, n) \in Seq(Node \cup Own \cup {Freed})
        /\ Len(Append(mEventList, n)) = Len(mEventList) + 1
    BY <1>2
  <2>2. /\ mEventList' = IF full THEN mEventList ELSE Append(mEventList, n)
        /\ full' = (full \/ Len(mEventList) + 1 = QueueSize)
    BY <1>2 DEF AddEventEntry, HasRoom
  <2>3. Len(mEventList) \in Nat /\ QueueSize \in Nat
    BY WiringAssumption
  <2>4. full \in BOOLEAN /\ (~full => Len(mEventList) < QueueSize) /\ Len(mEventList) <= QueueSize
    OBVIOUS
  <2>5. full' \in BOOLEAN /\ (full' <=> full \/ Len(mEventList) + 1 = QueueSize)
    BY <2>2, <2>4, Zenon
  <2>6. CASE full
    BY <2>2, <2>4, <2>5, <2>6
  <2>7. CASE ~full
    <3>1. mEventList' = Append(mEventList, n)
      BY <2>2, <2>7
    <3> QED  BY <2>1, <2>3, <2>4, <2>5, <2>7, <3>1
  <2> QED  BY <2>6, <2>7
<1>3. ASSUME NEW plugs, PerformDisconnect(plugs)
      PROVE  /\ peer' \in [Adapter -> Adapter \cup {None}]
             /\ conn' \in [Socket -> Plug \cup {None}]
             /\ sock' \in [Plug -> Socket \cup {None}]
  BY <1>3 DEF PerformDisconnect, GivenUp
<1>4. ASSUME NEW e \in Output, NEW i \in Input, ConnectEvent(e, i) PROVE TypeOK' /\ RoomLeft'
  BY <1>4 DEF ConnectEvent, adapterVars, threadVars
<1>5. ASSUME NEW e \in Output, NEW i \in Input, DisconnectEvent(e, i) PROVE TypeOK' /\ RoomLeft'
  <2>1. Removed(mDestinationIds[e], i) \in Seq(Input)
    BY <1>5, RemovedHolds DEF DisconnectEvent, Destinations
  <2> QED  BY <1>1, <1>5, <2>1 DEF DisconnectEvent, adapterVars
<1>6. ASSUME NEW p \in Plug, NEW s \in Socket, ConnectAdapter(p, s) PROVE TypeOK' /\ RoomLeft'
  <2>1. /\ peer' \in [Adapter -> Adapter \cup {None}]
        /\ conn' \in [Socket -> Plug \cup {None}]
        /\ dest' \in [Plug -> Socket \cup {None}]
        /\ sock' \in [Plug -> Socket \cup {None}]
    <3>1. CASE Established(p, s)
      <4>1. /\ peer' = [peer EXCEPT ![p] = s, ![s] = p]
            /\ conn' = [conn EXCEPT ![s] = p]
            /\ sock' = [sock EXCEPT ![p] = s]
            /\ dest' = [dest EXCEPT ![p] = s]
        BY <1>6, <3>1 DEF ConnectAdapter
      <4>2. p \in Adapter /\ s \in Adapter
        OBVIOUS
      <4> QED  BY <4>1, <4>2
    <3>2. CASE ~Established(p, s)
      BY <1>6, <3>2 DEF ConnectAdapter, GivenUp
    <3> QED  BY <3>1, <3>2
  <2> QED  BY <1>6, <2>1 DEF ConnectAdapter, threadVars
<1>7. ASSUME NEW p \in Plug, NEW s \in Socket, DisconnectAdapter(p, s) PROVE TypeOK' /\ RoomLeft'
  BY <1>3, <1>7 DEF DisconnectAdapter, threadVars
<1>8. ASSUME NEW f \in FB, CreateFB(f) \/ ChangeFBExecutionState(f) PROVE TypeOK' /\ RoomLeft'
  BY <1>8 DEF CreateFB, ChangeFBExecutionState, adapterVars, threadVars
<1>9. ASSUME NEW f \in FB, DeleteFB(f) PROVE TypeOK' /\ RoomLeft'
  BY <1>1, <1>3, <1>9 DEF DeleteFB
<1>10. CASE Thread
  <2>1. ASSUME NEW f \in FB, StartEventChain(f) PROVE TypeOK' /\ RoomLeft'
    BY <2>1 DEF StartEventChain, wiringVars, adapterVars
  <2>2. CASE ReceiveInputEvent
    <3>1. Tail(mEventList) \in Seq(Node \cup Own \cup {Freed})
          /\ Len(Tail(mEventList)) = Len(mEventList) - 1
      BY <2>2 DEF ReceiveInputEvent, TakenForEmpty
    <3>2. at' \in FB \cup {None}
      BY <2>2, WiringAssumption DEF ReceiveInputEvent
    <3> QED  BY <2>2, <3>1, <3>2, WiringAssumption DEF ReceiveInputEvent, wiringVars, adapterVars
  <2>3. ASSUME NEW e \in Output, TriggerEvent(e) PROVE TypeOK' /\ RoomLeft'
    <3>1. Head(mDestinationIds[e]) \in Input /\ Destinations(e) \subseteq Input
      BY <2>3 DEF TriggerEvent, Destinations, Range
    <3> QED  BY <2>3, <3>1 DEF TriggerEvent, Node, wiringVars, adapterVars
  <2>4. CASE TriggerNext
    <3>1. it \in Node
      BY <2>4 DEF TriggerNext
    <3>2. Successor(it) \in Node \cup {None}
      BY <3>1, NextNode
    <3> QED  BY <1>2, <2>4, <3>1, <3>2 DEF TriggerNext, wiringVars, adapterVars
  <2>5. ASSUME NEW a \in Adapter, SendAdapterEvent(a) PROVE TypeOK' /\ RoomLeft'
    BY <2>5 DEF SendAdapterEvent, wiringVars, adapterVars
  <2>6. CASE QueueAdapterEvent
    <3>1. it[1] \in Adapter /\ peer[it[1]] \in Adapter \cup {None}
      BY <2>6 DEF QueueAdapterEvent
    <3> QED  BY <1>2, <2>6, <3>1 DEF QueueAdapterEvent, Own, wiringVars, adapterVars
  <2>7. CASE Return
    BY <2>7 DEF Return, wiringVars, adapterVars
  <2> QED  BY <1>10, <2>1, <2>2, <2>3, <2>4, <2>5, <2>6, <2>7 DEF Thread
<1>11. CASE UNCHANGED vars
  BY <1>11 DEF vars, adapterVars, threadVars
<1> QED  BY <1>4, <1>5, <1>6, <1>7, <1>8, <1>9, <1>10, <1>11 DEF Next, Manager

LEMMA StandingStep == TypeInv /\ [Next]_vars => Standing'
<1> SUFFICES ASSUME TypeInv, [Next]_vars PROVE Standing'
  OBVIOUS
<1> USE DEF TypeInv, Standing
<1>1. ASSUME it' = it, mDestinationIds' = mDestinationIds PROVE Standing'
  BY <1>1 DEF Destinations
<1>2. ASSUME it' \notin Node PROVE Standing'
  BY <1>2
<1>3. ASSUME NEW e \in Output, NEW i \in Input, ConnectEvent(e, i) PROVE Standing'
  <2>1. \A d \in Output : Destinations(d) \subseteq Destinations(d)'
    <3>1. /\ mDestinationIds'[e] = Append(mDestinationIds[e], i)
          /\ \A d \in Output : d # e => mDestinationIds'[d] = mDestinationIds[d]
          /\ mDestinationIds[e] \in Seq(Input)
      BY <1>3 DEF ConnectEvent, TypeOK
    <3>2. Range(mDestinationIds[e]) \subseteq Range(Append(mDestinationIds[e], i))
      BY <3>1 DEF Range
    <3> QED  BY <3>1, <3>2 DEF Destinations
  <2> QED  BY <1>3, <2>1 DEF ConnectEvent, threadVars, Node
<1>4. ASSUME NEW e \in Output, NEW i \in Input, DisconnectEvent(e, i) PROVE Standing'
  <2>1. \A d \in Output : \A x \in Destinations(d) :
           d # e \/ x # i => x \in Destinations(d)'
    BY <1>4, RemovedKeeps DEF DisconnectEvent, Destinations, TypeOK
  <2>2. it' \in Node => it' = it /\ it # <<e, i>>
    BY <1>4, WiringAssumption DEF DisconnectEvent, Free, Node
  <2> QED  BY <2>1, <2>2 DEF Node
<1>5. ASSUME NEW p \in Plug, NEW s \in Socket, ConnectAdapter(p, s) \/ DisconnectAdapter(p, s)
      PROVE  Standing'
  BY <1>1, <1>5 DEF ConnectAdapter, DisconnectAdapter, threadVars
<1>6. ASSUME NEW f \in FB, CreateFB(f) \/ ChangeFBExecutionState(f) PROVE Standing'
  BY <1>1, <1>6 DEF CreateFB, ChangeFBExecutionState, threadVars
<1>7. ASSUME NEW f \in FB, DeleteFB(f) PROVE Standing'
  <2>1. it' = it \/ it' = Freed
    BY <1>7 DEF DeleteFB, Free
  <2> QED  BY <1>1, <1>2, <1>7, <2>1, WiringAssumption DEF DeleteFB, Node
<1>8. CASE Thread
  <2>1. ASSUME NEW f \in FB, StartEventChain(f) PROVE Standing'
    BY <1>1, <2>1 DEF StartEventChain, wiringVars
  <2>2. CASE ReceiveInputEvent \/ Return
    BY <1>1, <2>2 DEF ReceiveInputEvent, Return, wiringVars
  <2>3. ASSUME NEW e \in Output, TriggerEvent(e) PROVE Standing'
    BY <2>3 DEF TriggerEvent, wiringVars, Destinations, Range, TypeOK
  <2>4. CASE TriggerNext
    <3> DEFINE list == mDestinationIds[it[1]]
               k == Place(it)
    <3>1. list \in Seq(Input) /\ it[1] \in Output /\ it[2] \in Range(list)
      BY <2>4 DEF TriggerNext, Node, Destinations, TypeOK
    <3>2. k \in 1..Len(list)
      BY <3>1 DEF Place, PlaceIn, Range
    <3> HIDE DEF k
    <3>3. CASE k < Len(list)
      <4>1. it' = <<it[1], list[k + 1]>> /\ k + 1 \in 1..Len(list)
        BY <2>4, <3>1, <3>2, <3>3 DEF TriggerNext, Successor, HasNext, k
      <4> QED  BY <2>4, <3>1, <4>1 DEF TriggerNext, wiringVars, Destinations, Range
    <3>4. CASE ~(k < Len(list))
      BY <1>2, <2>4, <3>4, WiringAssumption DEF TriggerNext, Successor, HasNext, k, Node
    <3> QED  BY <3>3, <3>4
  <2>5. CASE (\E a \in Adapter : SendAdapterEvent(a)) \/ QueueAdapterEvent
    BY <1>2, <2>5, WiringAssumption
       DEF SendAdapterEvent, QueueAdapterEvent, Node, Adapter, TypeOK
  <2> QED  BY <1>8, <2>1, <2>2, <2>3, <2>4, <2>5 DEF Thread
<1>9. CASE UNCHANGED vars
  BY <1>1, <1>9 DEF vars, threadVars
<1> QED  BY <1>3, <1>4, <1>5, <1>6, <1>7, <1>8, <1>9 DEF Next, Manager

(* Every variable has its type.                                            *)
THEOREM TypeCorrect == Spec => []TypeOK
<1> QED  BY TypeInit, TypeStep, StandingStep, PTL DEF Spec, TypeInv

-----------------------------------------------------------------------------
(* What triggerEvent still owes stands in the list from its place on.      *)
Once(s) == \A a, b \in 1..Len(s) : s[a] = s[b] => a = b

Ahead ==
  it \in Node =>
    \A x \in owed : \E j \in Place(it)..Len(mDestinationIds[it[1]]) :
                      mDestinationIds[it[1]][j] = x

ServedInv ==
  /\ TypeInv
  /\ \A e \in Output : Once(mDestinationIds[e])
  /\ Ahead
  /\ it \notin Node \cup {Freed} => owed = {}

LEMMA OnePlace ==
  ASSUME NEW s \in Seq(Input), Once(s), NEW j \in 1..Len(s)
  PROVE  PlaceIn(s, s[j]) = j
BY DEF Once, PlaceIn

LEMMA ServedStep ==
  ASSUME ServedInv, [Next]_vars
  PROVE  /\ \A e \in Output : Once(mDestinationIds'[e])
         /\ Ahead'
         /\ it' \notin Node \cup {Freed} => owed' = {}
<1> DEFINE Goal == /\ \A e \in Output : Once(mDestinationIds'[e])
                   /\ Ahead'
                   /\ it' \notin Node \cup {Freed} => owed' = {}
<1> USE DEF ServedInv
<1>1. ASSUME mDestinationIds' = mDestinationIds, it' = it, owed' = owed PROVE Goal
  BY <1>1 DEF Ahead, Place
<1>2. ASSUME mDestinationIds' = mDestinationIds, it' \notin Node, owed' = {} PROVE Goal
  BY <1>2 DEF Ahead
<1>3. ASSUME mDestinationIds' = mDestinationIds, it' = Freed PROVE Goal
  BY <1>3, WiringAssumption DEF Ahead, Node
<1>4. ASSUME NEW e \in Output, NEW i \in Input, ConnectEvent(e, i) PROVE Goal
  <2> DEFINE s == mDestinationIds[e]
             r == Append(s, i)
  <2>1. /\ s \in Seq(Input) /\ i \notin Range(s) /\ Once(s) /\ it' = it /\ owed' = owed
        /\ mDestinationIds' = [mDestinationIds EXCEPT ![e] = r]
    BY <1>4 DEF ConnectEvent, threadVars, Destinations, TypeInv, TypeOK
  <2>2. /\ r \in Seq(Input) /\ Len(r) = Len(s) + 1 /\ r[Len(s) + 1] = i
        /\ \A j \in 1..Len(s) : r[j] = s[j]
    BY <2>1
  <2>3. mDestinationIds'[e] = r /\ \A d \in Output : d # e => mDestinationIds'[d] = mDestinationIds[d]
    BY <2>1 DEF TypeInv, TypeOK
  <2>4. \A j \in 1..Len(s) : s[j] # i
    BY <2>1 DEF Range
  <2> HIDE DEF s, r
  <2>5. Once(r)
    BY <2>1, <2>2, <2>4 DEF Once
  <2>6. ASSUME it \in Node, NEW x \in owed
        PROVE  \E j \in Place(it)'..Len(mDestinationIds'[it[1]]) : mDestinationIds'[it[1]][j] = x
    <3>1. CASE it[1] # e
      BY <2>1, <2>3, <2>6, <3>1 DEF Ahead, Place, Node
    <3>2. CASE it[1] = e
      <4>1. it[2] \in Range(s)
        BY <2>6, <3>2 DEF TypeInv, Standing, Destinations, s
      <4>2. PICK k \in 1..Len(s) : s[k] = it[2]
        BY <2>1, <4>1 DEF Range
      <4>3. Place(it) = k
        BY <2>1, <3>2, <4>2, OnePlace DEF Place, s
      <4>4. Place(it)' = k
        <5>1. k \in 1..Len(r) /\ r[k] = it[2]
          BY <2>1, <2>2, <4>2
        <5>2. PlaceIn(r, it[2]) = k
          BY <2>2, <2>5, <5>1, OnePlace
        <5> QED  BY <2>1, <2>3, <3>2, <5>2 DEF Place
      <4>5. PICK j \in k..Len(s) : s[j] = x
        BY <2>6, <3>2, <4>3 DEF Ahead, s
      <4>6. j \in k..Len(r) /\ r[j] = x
        BY <2>1, <2>2, <4>2, <4>5
      <4> QED  BY <2>3, <3>2, <4>4, <4>6
    <3> QED  BY <3>1, <3>2
  <2> QED  BY <2>1, <2>3, <2>5, <2>6 DEF Ahead
<1>5. ASSUME NEW e \in Output, NEW i \in Input, DisconnectEvent(e, i) PROVE Goal
  <2> DEFINE s == mDestinationIds[e]
             r == Removed(s, i)
             h == PlaceIn(s, i)
  <2>1. /\ s \in Seq(Input) /\ i \in Range(s) /\ Once(s)
        /\ mDestinationIds' = [mDestinationIds EXCEPT ![e] = r]
        /\ it' = IF it = <<e, i>> THEN Freed ELSE it
    BY <1>5 DEF DisconnectEvent, Free, Destinations, TypeInv, TypeOK
  <2>2. /\ h \in 1..Len(s) /\ s[h] = i /\ r \in Seq(Input) /\ Len(r) = Len(s) - 1
        /\ \A j \in 1..Len(s) - 1 : r[j] = IF j < h THEN s[j] ELSE s[j + 1]
    BY <2>1, RemovedHolds
  <2>3. mDestinationIds'[e] = r /\ \A d \in Output : d # e => mDestinationIds'[d] = mDestinationIds[d]
    BY <2>1 DEF TypeInv, TypeOK
  <2>4. owed' \subseteq owed /\ (it \in Node /\ it[1] = e => i \notin owed')
    BY <1>5, WiringAssumption DEF DisconnectEvent, Node
  <2> HIDE DEF s, r, h
  <2>5. Once(r)
    <3> SUFFICES ASSUME NEW a \in 1..Len(r), NEW b \in 1..Len(r), r[a] = r[b] PROVE a = b
      BY DEF Once
    <3>1. /\ a + 1 \in 1..Len(s) /\ b + 1 \in 1..Len(s) /\ a \in 1..Len(s) /\ b \in 1..Len(s)
          /\ a \in 1..Len(s) - 1 /\ b \in 1..Len(s) - 1
      BY <2>1, <2>2
    <3>2. r[a] = IF a < h THEN s[a] ELSE s[a + 1]
      BY <2>2, <3>1
    <3>3. r[b] = IF b < h THEN s[b] ELSE s[b + 1]
      BY <2>2, <3>1
    <3>4. \A x, y \in 1..Len(s) : s[x] = s[y] => x = y
      BY <2>1 DEF Once
    <3>5. CASE a < h /\ b < h
      BY <3>1, <3>2, <3>3, <3>4, <3>5
    <3>6. CASE a < h /\ ~(b < h)
      <4>1. s[a] = s[b + 1]
        BY <3>2, <3>3, <3>6
      <4>2. a = b + 1
        BY <3>1, <3>4, <4>1
      <4> QED  BY <2>2, <3>6, <4>2
    <3>7. CASE ~(a < h) /\ b < h
      <4>1. s[a + 1] = s[b]
        BY <3>2, <3>3, <3>7
      <4>2. a + 1 = b
        BY <3>1, <3>4, <4>1
      <4> QED  BY <2>2, <3>7, <4>2
    <3>8. CASE ~(a < h) /\ ~(b < h)
      <4>1. s[a + 1] = s[b + 1]
        BY <3>2, <3>3, <3>8
      <4>2. a + 1 = b + 1
        BY <3>1, <3>4, <4>1
      <4> QED  BY <4>2
    <3> QED  BY <3>5, <3>6, <3>7, <3>8
  <2>6. ASSUME it \in Node, it # <<e, i>>, NEW x \in owed'
        PROVE  \E j \in Place(it)'..Len(mDestinationIds'[it[1]]) : mDestinationIds'[it[1]][j] = x
    <3>1. CASE it[1] # e
      BY <2>1, <2>3, <2>4, <2>6, <3>1 DEF Ahead, Place, Node
    <3>2. CASE it[1] = e
      <4>1. it[2] \in Range(s) /\ it[2] # i
        BY <2>1, <2>6, <3>2 DEF TypeInv, Standing, Destinations, Node, s
      <4>2. PICK k \in 1..Len(s) : s[k] = it[2]
        BY <2>1, <4>1 DEF Range
      <4>3. Place(it) = k /\ k # h
        BY <2>1, <2>2, <3>2, <4>1, <4>2, OnePlace DEF Place, s
      <4>4. PICK j \in k..Len(s) : s[j] = x
        BY <2>4, <2>6, <3>2, <4>3 DEF Ahead, s
      <4>5. j # h /\ j \in 1..Len(s)
        BY <2>2, <2>4, <2>6, <3>2, <4>2, <4>4
      <4> DEFINE moved(n) == IF n < h THEN n ELSE n - 1
      <4>6. /\ moved(k) \in 1..Len(r) /\ r[moved(k)] = it[2]
            /\ moved(j) \in 1..Len(r) /\ r[moved(j)] = x
        <5>1. ASSUME NEW n \in 1..Len(s), n # h
              PROVE  moved(n) \in 1..Len(r) /\ r[moved(n)] = s[n]
          <6>1. CASE n < h
            BY <2>1, <2>2, <5>1, <6>1
          <6>2. CASE n > h
            <7>1. n - 1 \in 1..Len(s) - 1 /\ ~(n - 1 < h) /\ (n - 1) + 1 = n
              BY <2>1, <2>2, <5>1, <6>2
            <7> QED  BY <2>2, <6>2, <7>1
          <6> QED  BY <2>2, <5>1, <6>1, <6>2
        <5> QED  BY <4>2, <4>3, <4>4, <4>5, <5>1
      <4>7. moved(k) <= moved(j)
        BY <2>2, <4>2, <4>3, <4>4, <4>5
      <4> HIDE DEF moved
      <4>8. Place(it)' = moved(k)
        <5>1. PlaceIn(r, it[2]) = moved(k)
          BY <2>2, <2>5, <4>6, OnePlace
        <5> QED  BY <2>1, <2>3, <2>6, <3>2, <5>1 DEF Place
      <4>9. moved(j) \in moved(k)..Len(r)
        BY <2>2, <4>6, <4>7
      <4> QED  BY <2>3, <3>2, <4>6, <4>8, <4>9
    <3> QED  BY <3>1, <3>2
  <2>7. it' \notin Node \cup {Freed} => owed' = {}
    BY <2>1, <2>4
  <2>8. Ahead'
    BY <2>1, <2>6, WiringAssumption DEF Ahead, Node
  <2> QED  BY <2>1, <2>3, <2>5, <2>7, <2>8
<1>6. ASSUME NEW p \in Plug, NEW s \in Socket, ConnectAdapter(p, s) \/ DisconnectAdapter(p, s)
      PROVE  Goal
  BY <1>1, <1>6 DEF ConnectAdapter, DisconnectAdapter, threadVars
<1>7. ASSUME NEW f \in FB, CreateFB(f) \/ ChangeFBExecutionState(f) PROVE Goal
  BY <1>1, <1>7 DEF CreateFB, ChangeFBExecutionState, threadVars
<1>8. ASSUME NEW f \in FB, DeleteFB(f) PROVE Goal
  <2>1. it' \in {it, Freed}
    BY <1>8 DEF DeleteFB, Free
  <2> QED  BY <1>1, <1>3, <1>8, <2>1 DEF DeleteFB
<1>9. CASE Thread
  <2>1. ASSUME NEW f \in FB, StartEventChain(f) PROVE Goal
    BY <1>1, <2>1 DEF StartEventChain, wiringVars
  <2>2. CASE ReceiveInputEvent \/ Return
    BY <1>1, <2>2 DEF ReceiveInputEvent, Return, wiringVars
  <2>3. ASSUME NEW e \in Output, TriggerEvent(e) PROVE Goal
    <3> DEFINE s == mDestinationIds[e]
    <3>1. /\ s \in Seq(Input) /\ s # <<>> /\ Once(s) /\ it' = <<e, s[1]>> /\ owed' = Range(s)
          /\ mDestinationIds' = mDestinationIds /\ it' \in Node
      BY <2>3 DEF TriggerEvent, Destinations, TypeInv, TypeOK, wiringVars, Node
    <3>2. 1 \in 1..Len(s)
      BY <3>1
    <3>3. Place(it)' = 1
      <4>1. PlaceIn(s, s[1]) = 1
        BY <3>1, <3>2, OnePlace
      <4> QED  BY <3>1, <4>1 DEF Place
    <3>4. Ahead'
      BY <3>1, <3>3 DEF Ahead, Range
    <3> QED  BY <3>1, <3>4
  <2>4. CASE TriggerNext
    <3> DEFINE s == mDestinationIds[it[1]]
               k == Place(it)
    <3>1. /\ s \in Seq(Input) /\ it[2] \in Range(s) /\ Once(s) /\ mDestinationIds' = mDestinationIds
          /\ it \in Node /\ owed' = owed \ {it[2]} /\ it' = Successor(it)
      BY <2>4 DEF TriggerNext, TypeInv, TypeOK, Standing, Destinations, Node, wiringVars
    <3>2. k \in 1..Len(s) /\ s[k] = it[2]
      BY <3>1 DEF Place, PlaceIn, Range
    <3>3. \A x \in owed : \E j \in k..Len(s) : s[j] = x
      BY <3>1 DEF Ahead
    <3>4. CASE HasNext(it)
      <4>1. k < Len(s) /\ it' = <<it[1], s[k + 1]>> /\ k + 1 \in 1..Len(s)
        BY <3>1, <3>2, <3>4 DEF HasNext, Successor
      <4>2. Place(it)' = k + 1
        <5>1. PlaceIn(s, s[k + 1]) = k + 1
          BY <3>1, <4>1, OnePlace
        <5> QED  BY <3>1, <4>1, <5>1 DEF Place
      <4> HIDE DEF k
      <4>3. ASSUME NEW x \in owed' PROVE \E j \in k + 1..Len(s) : s[j] = x
        <5>1. PICK j \in k..Len(s) : s[j] = x
          BY <3>1, <3>3, <4>3
        <5>2. j # k
          BY <3>1, <3>2, <4>3, <5>1
        <5>3. j \in k + 1..Len(s)
          BY <3>2, <5>1, <5>2
        <5> QED  BY <5>1, <5>3
      <4>4. it' \in Node
        BY <3>1, <4>1 DEF Node
      <4> QED  BY <3>1, <4>1, <4>2, <4>3, <4>4 DEF Ahead
    <3>5. CASE ~HasNext(it)
      <4>1. k = Len(s) /\ it' = None
        BY <3>1, <3>2, <3>5 DEF HasNext, Successor
      <4>2. \A x \in owed : x = it[2]
        BY <3>2, <3>3, <4>1
      <4> QED  BY <1>2, <3>1, <4>1, <4>2, WiringAssumption DEF Node
    <3> QED  BY <3>4, <3>5
  <2>5. CASE (\E a \in Adapter : SendAdapterEvent(a)) \/ QueueAdapterEvent
    <3>1. it = None \/ it \in Adapter \X Adapter
      BY <2>5 DEF SendAdapterEvent, QueueAdapterEvent
    <3>2. it \notin Node \cup {Freed}
      BY <3>1, WiringAssumption DEF Node, Adapter
    <3>3. it' \in (Adapter \X Adapter) \cup {None, Freed}
      BY <2>5 DEF SendAdapterEvent, QueueAdapterEvent, TypeInv, TypeOK
    <3>4. it' \notin Node
      BY <3>3, WiringAssumption DEF Node, Adapter
    <3>5. owed' = owed /\ mDestinationIds' = mDestinationIds
      BY <2>5 DEF SendAdapterEvent, QueueAdapterEvent, wiringVars
    <3> QED  BY <1>2, <3>2, <3>4, <3>5
  <2> QED  BY <1>9, <2>1, <2>2, <2>3, <2>4, <2>5 DEF Thread
<1>10. CASE UNCHANGED vars
  BY <1>1, <1>10 DEF vars, threadVars
<1> QED  BY <1>4, <1>5, <1>6, <1>7, <1>8, <1>9, <1>10 DEF Next, Manager

(* A walk of triggerEvent that comes to its end has passed the event to    *)
(* every destination the connection had from its beginning on, whatever    *)
(* the manager connects, disconnects and deletes meanwhile; the walk whose *)
(* own node he takes back comes to no end (CEventConnection::triggerEvent, *)
(* CConnection::addDestination, removeDestination).                        *)
THEOREM EveryDestinationServed == Spec => []DestinationsServed
<1>1. Init => ServedInv
  <2>1. Init => (\A e \in Output : Once(mDestinationIds[e])) /\ Ahead /\ owed = {}
    BY WiringAssumption DEF Init, Once, Ahead, Node
  <2> QED  BY <2>1, TypeInit DEF ServedInv
<1>2. ServedInv /\ [Next]_vars => ServedInv'
  BY ServedStep, TypeStep, StandingStep DEF ServedInv, TypeInv
<1>3. ServedInv => DestinationsServed
  BY WiringAssumption DEF ServedInv, DestinationsServed, Node
<1> QED  BY <1>1, <1>2, <1>3, PTL DEF Spec
=============================================================================
