----------------------------- MODULE CommFBProofs -----------------------------
(***************************************************************************)
(* Proofs about CommFB, the communication function block over its IP       *)
(* layer.                                                                  *)
(*                                                                         *)
(* BaseInv holds whatever the environment does: the types, the list of     *)
(* call-backs as a function of the layer's sockets (LayerInv), and how far *)
(* the copies two threads make of the interrupt queue's count can lie from *)
(* it (CountInv).  Type correctness and CallbacksAgree follow from it.     *)
(***************************************************************************)
EXTENDS CommFB, FiniteSetTheorems, SequenceTheorems, TLAPS

-----------------------------------------------------------------------------
(* The parts of the invariants.                                            *)
HandPlaces == {"scan", "select", "pass", "recv", "accept", "refuse", "read", "fill",
               "interrupt", "count", "notify"}
Runners == Node \cup {BeginNode, EndNode}

\* The list of call-backs for the sockets a layer has, the listening one first.
Listed(listening, socket, layer) ==
  IF listening = "listen"
    THEN IF socket = "data"
           THEN <<[fd |-> "listen", layer |-> layer], [fd |-> "data", layer |-> layer]>>
           ELSE <<[fd |-> "listen", layer |-> layer]>>
    ELSE IF socket = "data" THEN <<[fd |-> "data", layer |-> layer]>> ELSE <<>>

IPFields ==
  [mSocketID : {NoSocket, "data"}, mListeningID : {NoSocket, "listen"},
   m_eConnectionState : {"Disconnected", "Listening", "Connected"},
   mInterruptResp : Responses, mRecvBuffer : Messages(BufferSize),
   mBufFillSize : 0..BufferSize]
HandFields ==
  [at : HandPlaces, ready : SUBSET {"data", "listen"}, runner : Runners,
   node : Node \cup {EndNode}, n : Nat]
NetFields ==
  [backlog : 0..1, inbox : Messages(MaxMsgs), closed : BOOLEAN, asked : BOOLEAN]
EcetFields ==
  [at : {"idle", "process", "empty", "count", "respond"}, copy : 0..QueueSize,
   i : Nat \ {0}, ret : Responses, n : 0..QueueSize]

StackType ==
  /\ service \in {"Server", "Client", "Subscriber"}
  /\ opened \in 0..MaxOpen /\ m_poTopOfComStack \in {0, opened}
IPType == ip \in IPFields
QueueType ==
  /\ m_apoInterruptQueue \in [1..QueueSize -> 0..MaxOpen]
  /\ m_unComInterruptQueueCount \in 0..QueueSize
SelectType ==
  /\ mConnectionListChanged \in BOOLEAN
  /\ anFDSetMaster \subseteq {"data", "listen"}
HandType == hand \in HandFields
NetType == net \in NetFields /\ events \in 0..ExtSize /\ sent \in 0..MaxMsgs
BlockType ==
  /\ mFBState \in {"IDLE", "RUNNING", "KILLED"} /\ app \in {"free", "busy"}
  /\ mRD \in Messages(BufferSize) /\ indicated \in Seq(Messages(BufferSize))
EcetType == ecet \in EcetFields
TypeInv == /\ StackType /\ IPType /\ QueueType /\ SelectType
           /\ HandType /\ NetType /\ BlockType /\ EcetType

\* The layer's sockets, its state and the list of call-backs.
LayerInv ==
  /\ mConnectionsList = Listed(ip.mListeningID, ip.mSocketID, m_poTopOfComStack)
  /\ mConnectionListChanged \/ anFDSetMaster = Sockets
  /\ service = "Server" /\ "data" \in anFDSetMaster => "listen" \in anFDSetMaster
  /\ m_poTopOfComStack = 0 => ip.mSocketID = NoSocket /\ ip.mListeningID = NoSocket
  /\ ip.mSocketID = "data" => ip.m_eConnectionState = "Connected"
  /\ IF service = "Server"
     THEN m_poTopOfComStack # 0 =>
            /\ ip.mListeningID = "listen"
            /\ ip.mSocketID = NoSocket => ip.m_eConnectionState = "Listening"
     ELSE ip.mListeningID = NoSocket /\ ip.m_eConnectionState # "Listening"

\* The two threads at the interrupt queue, and the buffer under its fill count.
CountInv ==
  /\ InCallback => hand.node \in Node /\ hand.node.layer <= opened
  /\ hand.at = "count" => hand.n < QueueSize /\ m_unComInterruptQueueCount <= hand.n
  /\ ecet.at \in {"process", "empty"} => ecet.copy <= m_unComInterruptQueueCount
  /\ ecet.at = "count" => ecet.copy <= ecet.n /\ ecet.n <= m_unComInterruptQueueCount
  /\ ip.mBufFillSize <= Len(ip.mRecvBuffer)
  /\ hand.at = "fill" /\ CalleeLives => ip.mBufFillSize + hand.n <= Len(ip.mRecvBuffer)
  /\ hand.at = "accept" /\ CalleeLives => ip.m_eConnectionState = "Listening"
  /\ Len(net.inbox) <= sent

-----------------------------------------------------------------------------
(* The list of call-backs and sequences of messages.                       *)

\* Taking a call-back out of a list of at most two.
LEMMA WithoutOne ==
  ASSUME NEW a, NEW b, NEW fd
  PROVE  /\ WithoutCallback(<<>>, fd) = <<>>
         /\ WithoutCallback(<<a>>, fd) = IF a.fd = fd THEN <<>> ELSE <<a>>
         /\ a.fd # b.fd =>
              WithoutCallback(<<a, b>>, fd) =
                IF a.fd = fd THEN <<b>> ELSE IF b.fd = fd THEN <<a>> ELSE <<a, b>>
  <1> DEFINE Found(list) == {i \in DOMAIN list : list[i].fd = fd}
  <1>1. Found(<<>>) = {} OBVIOUS
  <1>2. a.fd = fd => Found(<<a>>) = {1} OBVIOUS
  <1>3. a.fd # fd => Found(<<a>>) = {} OBVIOUS
  <1>4. a.fd = fd /\ b.fd # fd => Found(<<a, b>>) = {1} OBVIOUS
  <1>5. a.fd # fd /\ b.fd = fd => Found(<<a, b>>) = {2} OBVIOUS
  <1>6. a.fd # fd /\ b.fd # fd => Found(<<a, b>>) = {} OBVIOUS
  <1>7. Min({1}) = 1 /\ Min({2}) = 2
    BY DEF Min
  <1>8. RemoveAt(<<a>>, 1) = <<>> /\ RemoveAt(<<a, b>>, 1) = <<b>> /\ RemoveAt(<<a, b>>, 2) = <<a>>
    <2>1. a \in {a, b} /\ b \in {a, b} OBVIOUS
    <2>2. <<a>> \in Seq({a, b}) /\ <<b>> \in Seq({a, b}) /\ <<a, b>> \in Seq({a, b})
      BY <2>1
    <2>3. SubSeq(<<a>>, 1, 0) = <<>> /\ SubSeq(<<a>>, 2, 1) = <<>>
      BY <2>2, SubSeqProperties
    <2>4. SubSeq(<<a, b>>, 1, 0) = <<>> /\ SubSeq(<<a, b>>, 3, 2) = <<>>
      BY <2>2, SubSeqProperties
    <2>5. SubSeq(<<a, b>>, 1, 1) = <<a>> /\ SubSeq(<<a, b>>, 2, 2) = <<b>>
      <3>1. /\ SubSeq(<<a, b>>, 1, 1) = <<a>> \o SubSeq(<<a, b>>, 2, 1)
            /\ SubSeq(<<a, b>>, 2, 2) = <<b>> \o SubSeq(<<a, b>>, 3, 2)
        <4>1. /\ Len(<<a, b>>) = 2 /\ <<a, b>>[1] = a /\ <<a, b>>[2] = b
              /\ 1 \in 1..2 /\ 2 \in 2..2 /\ 2 \in 1..2 /\ 1 \in 1..1 /\ 1 + 1 = 2 /\ 2 + 1 = 3
          OBVIOUS
        <4> DEFINE q == <<a, b>>
                   T == {a, b}
        <4>2. q \in Seq(T) /\ Len(q) = 2 /\ q[1] = a /\ q[2] = b BY <4>1, <2>2
        <4> HIDE DEF q, T
        <4>3. SubSeq(q, 1, 1) = <<q[1]>> \o SubSeq(q, 1 + 1, 1)
          <5>1. 1 \in 1..Len(q) /\ 1 \in 1..Len(q) BY <4>2
          <5> QED BY <5>1, <4>1, <4>2, SubSeqRecursiveFirst
        <4>4. SubSeq(q, 2, 2) = <<q[2]>> \o SubSeq(q, 2 + 1, 2)
          <5>1. 2 \in 1..Len(q) /\ 2 \in 2..Len(q) BY <4>2
          <5> QED BY <5>1, <4>2, SubSeqRecursiveFirst
        <4> QED BY <4>1, <4>2, <4>3, <4>4 DEF q
      <3>2. SubSeq(<<a, b>>, 2, 1) = <<>> BY SubSeqEmpty
      <3> QED BY <3>1, <3>2, <2>2, <2>4, ConcatEmptySeq
    <2>6. Len(<<a>>) = 1 /\ Len(<<a, b>>) = 2 OBVIOUS
    <2>7. /\ RemoveAt(<<a>>, 1) = SubSeq(<<a>>, 1, 0) \o SubSeq(<<a>>, 2, 1)
          /\ RemoveAt(<<a, b>>, 1) = SubSeq(<<a, b>>, 1, 0) \o SubSeq(<<a, b>>, 2, 2)
          /\ RemoveAt(<<a, b>>, 2) = SubSeq(<<a, b>>, 1, 1) \o SubSeq(<<a, b>>, 3, 2)
      BY <2>6 DEF RemoveAt
    <2>8. <<>> \o <<>> = <<>> /\ <<>> \o <<b>> = <<b>> /\ <<a>> \o <<>> = <<a>>
      BY <2>2, ConcatEmptySeq
    <2> QED BY <2>3, <2>4, <2>5, <2>7, <2>8
  <1>9. \A list : WithoutCallback(list, fd) =
                    IF Found(list) = {} THEN list ELSE RemoveAt(list, Min(Found(list)))
    BY DEF WithoutCallback
  <1> HIDE DEF Found
  <1> QED BY <1>1, <1>2, <1>3, <1>4, <1>5, <1>6, <1>7, <1>8, <1>9, 1 # 2

\* Adding and taking out a call-back keeps the list in that order.
LEMMA ListedFacts ==
  ASSUME NEW l \in {"listen", NoSocket}, NEW s \in {"data", NoSocket}, NEW t
  PROVE  /\ WithoutCallback(Listed(l, s, t), "data") = Listed(l, NoSocket, t)
         /\ WithoutCallback(WithoutCallback(Listed(l, s, t), s), l) = <<>>
         /\ Append(Listed(l, NoSocket, t), [fd |-> "data", layer |-> t]) = Listed(l, "data", t)
         /\ Append(Listed(NoSocket, s, t), [fd |-> "listen", layer |-> t]) = Listed("listen", s, t) \/ s = "data"
         /\ Listed(NoSocket, NoSocket, t) = <<>>
         /\ Descriptors(Listed(l, s, t)) = {s, l} \ {NoSocket}
         /\ \A j \in DOMAIN Listed(l, s, t) : Listed(l, s, t)[j].layer = t
         /\ t \in 1..MaxOpen => Listed(l, s, t) \in UNION {[1..k -> Node] : k \in 0..2}
  <1> DEFINE L == [fd |-> "listen", layer |-> t]
             D == [fd |-> "data", layer |-> t]
  <1>1. L.fd = "listen" /\ D.fd = "data" /\ L.fd # D.fd /\ L.layer = t /\ D.layer = t
    OBVIOUS
  <1>2. /\ Listed("listen", "data", t) = <<L, D>> /\ Listed("listen", NoSocket, t) = <<L>>
        /\ Listed(NoSocket, "data", t) = <<D>> /\ Listed(NoSocket, NoSocket, t) = <<>>
    BY DEF Listed, NoSocket
  <1>3. t \in 1..MaxOpen => L \in Node /\ D \in Node
    BY DEF Node
  <1>4. NoSocket \notin {"data", "listen"}
    BY DEF NoSocket
  <1> HIDE DEF L, D
  <1>5. /\ WithoutCallback(Listed(l, s, t), "data") = Listed(l, NoSocket, t)
        /\ WithoutCallback(WithoutCallback(Listed(l, s, t), s), l) = <<>>
    <2>1. ASSUME NEW fd
          PROVE  /\ WithoutCallback(<<>>, fd) = <<>>
                 /\ WithoutCallback(<<L>>, fd) = IF "listen" = fd THEN <<>> ELSE <<L>>
                 /\ WithoutCallback(<<D>>, fd) = IF "data" = fd THEN <<>> ELSE <<D>>
                 /\ WithoutCallback(<<L, D>>, fd) =
                      IF "listen" = fd THEN <<D>> ELSE IF "data" = fd THEN <<L>> ELSE <<L, D>>
      <3>1. /\ WithoutCallback(<<>>, fd) = <<>>
            /\ WithoutCallback(<<L>>, fd) = IF L.fd = fd THEN <<>> ELSE <<L>>
            /\ L.fd # D.fd =>
                WithoutCallback(<<L, D>>, fd) =
                  IF L.fd = fd THEN <<D>> ELSE IF D.fd = fd THEN <<L>> ELSE <<L, D>>
        BY WithoutOne
      <3>2. WithoutCallback(<<D>>, fd) = IF D.fd = fd THEN <<>> ELSE <<D>>
        BY WithoutOne
      <3> QED BY <3>1, <3>2, <1>1
    <2>2. CASE l = "listen" /\ s = "data" BY <1>2, <1>4, <2>1, <2>2
    <2>3. CASE l = "listen" /\ s = NoSocket BY <1>2, <1>4, <2>1, <2>3
    <2>4. CASE l = NoSocket /\ s = "data" BY <1>2, <1>4, <2>1, <2>4
    <2>5. CASE l = NoSocket /\ s = NoSocket BY <1>2, <1>4, <2>1, <2>5
    <2> QED BY <2>2, <2>3, <2>4, <2>5
  <1>6. Append(<<>>, D) = <<D>> /\ Append(<<L>>, D) = <<L, D>> /\ Append(<<>>, L) = <<L>>
    <2>1. L \in {L, D} /\ D \in {L, D} /\ <<>> \in Seq({L, D}) /\ <<L>> \in Seq({L, D})
      OBVIOUS
    <2>2. /\ Append(<<L>>, D) \in Seq({L, D}) /\ Len(Append(<<L>>, D)) = 2
          /\ Append(<<L>>, D)[1] = L /\ Append(<<L>>, D)[2] = D
      BY <2>1, AppendProperties
    <2>3. <<L, D>> \in Seq({L, D}) /\ Len(<<L, D>>) = 2 /\ <<L, D>>[1] = L /\ <<L, D>>[2] = D
      BY <2>1
    <2>4. Append(<<L>>, D) = <<L, D>>
      <3> DEFINE p == Append(<<L>>, D)
                 q == <<L, D>>
                 T == {L, D}
      <3>1. p \in Seq(T) /\ q \in Seq(T) /\ Len(p) = 2 /\ Len(q) = 2 /\ p[1] = q[1] /\ p[2] = q[2]
        BY <2>2, <2>3
      <3>2. \A i \in 1..2 : i = 1 \/ i = 2 OBVIOUS
      <3> HIDE DEF p, q, T
      <3>3. p = q BY <3>1, <3>2, SeqEqual
      <3> QED BY <3>3 DEF p, q
    <2> QED BY <2>1, <2>4, AppendProperties
  <1>7. Append(Listed(l, NoSocket, t), D) = Listed(l, "data", t)
    BY <1>2, <1>6
  <1>8. Append(Listed(NoSocket, s, t), L) = Listed("listen", s, t) \/ s = "data"
    BY <1>2, <1>6
  <1>9. \A j \in DOMAIN Listed(l, s, t) : Listed(l, s, t)[j].layer = t
    BY <1>1, <1>2
  <1>10. /\ Descriptors(<<>>) = {} /\ Descriptors(<<L>>) = {"listen"} /\ Descriptors(<<D>>) = {"data"}
         /\ Descriptors(<<L, D>>) = {"data", "listen"}
    <2>1. DOMAIN <<>> = {} /\ DOMAIN <<L>> = {1} /\ DOMAIN <<D>> = {1} /\ DOMAIN <<L, D>> = {1, 2}
      OBVIOUS
    <2>2. <<L>>[1] = L /\ <<D>>[1] = D /\ <<L, D>>[1] = L /\ <<L, D>>[2] = D
      OBVIOUS
    <2> QED BY <1>1, <2>1, <2>2 DEF Descriptors
  <1>11. Descriptors(Listed(l, s, t)) = {s, l} \ {NoSocket}
    BY <1>2, <1>4, <1>10
  <1>12. t \in 1..MaxOpen => Listed(l, s, t) \in UNION {[1..k -> Node] : k \in 0..2}
    <2> SUFFICES ASSUME t \in 1..MaxOpen PROVE \E k \in 0..2 : Listed(l, s, t) \in [1..k -> Node]
      OBVIOUS
    <2>1. /\ <<>> \in [1..0 -> Node] /\ <<L>> \in [1..1 -> Node] /\ <<D>> \in [1..1 -> Node]
          /\ <<L, D>> \in [1..2 -> Node]
      BY <1>3
    <2>2. 0 \in 0..2 /\ 1 \in 0..2 /\ 2 \in 0..2 OBVIOUS
    <2> QED BY <2>1, <2>2, <1>2
  <1> QED BY <1>2, <1>5, <1>7, <1>8, <1>9, <1>11, <1>12 DEF L, D

\* What Messages means, and the parts of a message.
LEMMA MessageFacts ==
  ASSUME NEW n \in Nat
  PROVE  \A m : m \in Messages(n) <=> m \in Seq(1..MaxMsgs) /\ Len(m) <= n
  <1>1. ASSUME NEW m, m \in Messages(n) PROVE m \in Seq(1..MaxMsgs) /\ Len(m) <= n
    <2>1. PICK k \in 0..n : m \in [1..k -> 1..MaxMsgs] BY <1>1 DEF Messages
    <2>2. k \in Nat /\ k <= n OBVIOUS
    <2>3. m = [i \in 1..k |-> m[i]] /\ \A i \in 1..k : m[i] \in 1..MaxMsgs BY <2>1
    <2>4. m \in Seq(1..MaxMsgs) BY <2>1, <2>2, <2>3
    <2>5. Len(m) = k BY <2>1, <2>2, <2>4, LenProperties
    <2> QED BY <2>2, <2>4, <2>5
  <1>2. ASSUME NEW m \in Seq(1..MaxMsgs), Len(m) <= n PROVE m \in Messages(n)
    <2>1. Len(m) \in Nat /\ m \in [1..Len(m) -> 1..MaxMsgs] BY <1>2, LenProperties
    <2>2. Len(m) \in 0..n BY <1>2, <2>1
    <2> QED BY <2>1, <2>2 DEF Messages
  <1> QED BY <1>1, <1>2

\* The first part of a sequence.
LEMMA FrontFacts ==
  ASSUME NEW S, NEW m \in Seq(S), NEW k \in Nat, k <= Len(m)
  PROVE  SubSeq(m, 1, k) \in Seq(S) /\ Len(SubSeq(m, 1, k)) = k
  OBVIOUS

\* The two parts a sequence is cut into.
LEMMA PartFacts ==
  ASSUME NEW S, NEW m \in Seq(S), NEW k \in Nat, k <= Len(m)
  PROVE  /\ SubSeq(m, 1, k) \in Seq(S) /\ Len(SubSeq(m, 1, k)) = k
         /\ SubSeq(m, k + 1, Len(m)) \in Seq(S) /\ Len(SubSeq(m, k + 1, Len(m))) = Len(m) - k
  OBVIOUS

-----------------------------------------------------------------------------
(* Buffers, records and the select thread's first steps.                   *)
BaseInv == TypeInv /\ LayerInv /\ CountInv

\* What remains of a sequence of messages.
LEMMA RestOfMessages ==
  ASSUME NEW q \in Nat, NEW b \in Messages(q), NEW n \in Nat, n <= Len(b)
  PROVE  /\ SubSeq(b, n + 1, Len(b)) \in Messages(q)
         /\ Len(SubSeq(b, n + 1, Len(b))) = Len(b) - n
  <1> DEFINE m == SubSeq(b, n + 1, Len(b))
  <1>1. b \in Seq(1..MaxMsgs) /\ Len(b) <= q BY MessageFacts
  <1>2. m \in Seq(1..MaxMsgs) /\ Len(m) = Len(b) - n BY <1>1, PartFacts
  <1>3. Len(b) \in Nat BY <1>1, LenProperties
  <1>4. Len(m) <= q
    <2> HIDE DEF m
    <2> QED BY <1>1, <1>2, <1>3
  <1> HIDE DEF m
  <1>5. m \in Messages(q) BY <1>2, <1>4, MessageFacts
  <1> QED BY <1>2, <1>5 DEF m

\* The bounds, the responses and the empty message.
LEMMA Basics ==
  /\ MaxMsgs \in Nat /\ MaxOpen \in Nat
  /\ QueueSize \in Nat /\ QueueSize >= 1 /\ BufferSize \in Nat /\ BufferSize >= 1
  /\ ExtSize \in Nat /\ ExtSize >= 1
  /\ Responses = {0, 32, 82} /\ Nothing = 0 /\ ProcessDataOk = 32 /\ InitTerminated = 82
  /\ <<>> \in Messages(BufferSize) /\ <<>> \in Messages(MaxMsgs) /\ Len(<<>>) = 0
  /\ NoSocket \notin {"data", "listen"}
  /\ NoTraffic \in NetFields
  /\ NoTraffic.inbox = <<>> /\ NoTraffic.backlog = 0 /\ ~NoTraffic.closed /\ ~NoTraffic.asked
  <1>1. <<>> \in Messages(BufferSize) /\ <<>> \in Messages(MaxMsgs)
    <2>1. <<>> \in Seq(1..MaxMsgs) /\ Len(<<>>) = 0 OBVIOUS
    <2>2. \A n \in Nat : <<>> \in Messages(n)
      <3> TAKE n \in Nat
      <3>1. Len(<<>>) <= n BY <2>1
      <3> QED BY <2>1, <3>1, MessageFacts
    <2> QED BY <2>2, BoundAssumption
  <1> QED BY <1>1, BoundAssumption DEF Responses, Nothing, ProcessDataOk, InitTerminated, NoSocket, NoTraffic, NetFields

\* Places of the two threads, and a new layer.
LEMMA Records ==
  /\ \A w \in HandPlaces : HandlerAt(w) \in HandFields
  /\ \A w : /\ HandlerAt(w).at = w /\ HandlerAt(w).n = 0
            /\ HandlerAt(w).runner = EndNode /\ HandlerAt(w).node = EndNode
  /\ EndNode \in Runners /\ BeginNode \in Runners /\ Node \subseteq Runners
  /\ EndNode # BeginNode /\ EndNode \notin Node /\ BeginNode \notin Node
  /\ \A w \in {"idle", "process", "respond"} : Ecet(w) \in EcetFields
  /\ \A w : /\ Ecet(w).at = w /\ Ecet(w).copy = 0 /\ Ecet(w).i = 1
            /\ Ecet(w).ret = Nothing /\ Ecet(w).n = 0
  /\ NewLayer \in IPFields
  /\ NewLayer.mSocketID = NoSocket /\ NewLayer.mListeningID = NoSocket
  /\ NewLayer.mBufFillSize = 0 /\ NewLayer.m_eConnectionState = "Disconnected"
  /\ NewLayer.mRecvBuffer = <<>>
  <1>1. \A w \in HandPlaces : HandlerAt(w) \in HandFields
    BY DEF HandlerAt, HandFields, Runners
  <1>2. \A w : /\ HandlerAt(w).at = w /\ HandlerAt(w).n = 0
              /\ HandlerAt(w).runner = EndNode /\ HandlerAt(w).node = EndNode
    BY DEF HandlerAt
  <1>3. /\ EndNode \in Runners /\ BeginNode \in Runners /\ Node \subseteq Runners
        /\ EndNode # BeginNode /\ EndNode \notin Node /\ BeginNode \notin Node
    BY DEF Runners, EndNode, BeginNode, Node
  <1>4. \A w \in {"idle", "process", "respond"} : Ecet(w) \in EcetFields
    BY Basics DEF Ecet, EcetFields
  <1>5. \A w : /\ Ecet(w).at = w /\ Ecet(w).copy = 0 /\ Ecet(w).i = 1
              /\ Ecet(w).ret = Nothing /\ Ecet(w).n = 0
    BY DEF Ecet
  <1>6. NewLayer \in IPFields
    BY Basics DEF NewLayer, IPFields
  <1>7. /\ NewLayer.mSocketID = NoSocket /\ NewLayer.mListeningID = NoSocket
        /\ NewLayer.mBufFillSize = 0 /\ NewLayer.m_eConnectionState = "Disconnected"
        /\ NewLayer.mRecvBuffer = <<>>
    BY DEF NewLayer
  <1> QED BY <1>1, <1>2, <1>3, <1>4, <1>5, <1>6, <1>7

\* Types of what stays as it is.
LEMMA Frame ==
  ASSUME TypeInv
  PROVE  /\ UNCHANGED <<service, opened, m_poTopOfComStack>> => StackType'
         /\ UNCHANGED ip => IPType'
         /\ UNCHANGED <<m_apoInterruptQueue, m_unComInterruptQueueCount>> => QueueType'
         /\ UNCHANGED <<mConnectionListChanged, anFDSetMaster>> => SelectType'
         /\ UNCHANGED hand => HandType'
         /\ UNCHANGED <<net, events, sent>> => NetType'
         /\ UNCHANGED <<mFBState, app, mRD, indicated>> => BlockType'
         /\ UNCHANGED ecet => EcetType'
  BY DEF TypeInv, StackType, IPType, QueueType, SelectType, HandType, NetType, BlockType, EcetType

\* The copy of the descriptor set and select.
LEMMA ScanKeeps ==
  ASSUME BaseInv, Handler, Scan
  PROVE  BaseInv'
  <1>1. /\ hand' = HandlerAt("select") /\ mConnectionListChanged' = FALSE
        /\ anFDSetMaster' = IF mConnectionListChanged
                             THEN Descriptors(mConnectionsList) ELSE anFDSetMaster
        /\ UNCHANGED <<service, m_poTopOfComStack, opened, ip, m_apoInterruptQueue,
                       m_unComInterruptQueueCount, mConnectionsList, events, net,
                       mFBState, ecet, mRD, app, indicated, sent>>
    BY DEF Handler, Scan, stackVars, queueVars, appVars
  <1>2. Descriptors(mConnectionsList) = Sockets
    <2>1. ip.mSocketID \in {"data", NoSocket} /\ ip.mListeningID \in {"listen", NoSocket}
      BY DEF BaseInv, TypeInv, IPType, IPFields
    <2> QED BY <2>1, ListedFacts DEF BaseInv, LayerInv, Sockets
  <1>3. anFDSetMaster' = Sockets
    BY <1>1, <1>2 DEF BaseInv, LayerInv
  <1>4. Sockets \subseteq {"data", "listen"} /\ Sockets' = Sockets
    BY <1>1 DEF BaseInv, TypeInv, IPType, IPFields, Sockets
  <1>5. TypeInv'
    <2>1. SelectType' BY <1>1, <1>3, <1>4 DEF SelectType
    <2>2. HandType' BY <1>1, Records DEF HandType, HandPlaces
    <2> QED BY <1>1, <2>1, <2>2, Frame DEF BaseInv, TypeInv
  <1>6. LayerInv'
    <2>1. service = "Server" /\ "data" \in Sockets => "listen" \in Sockets
      BY Records, Basics DEF BaseInv, TypeInv, IPType, IPFields, StackType, LayerInv, Sockets
    <2> QED BY <1>1, <1>3, <1>4, <2>1 DEF BaseInv, LayerInv
  <1>7. CountInv'
    <2>1. hand'.at = "select" BY <1>1, Records
    <2> QED BY <1>1, <2>1 DEF BaseInv, CountInv, InCallback
  <1> QED BY <1>5, <1>6, <1>7 DEF BaseInv

\* Select keeps the basic invariant: ready descriptors are descriptors.
LEMMA SelectKeeps ==
  ASSUME BaseInv, Handler, Select
  PROVE  BaseInv'
  <1>1. /\ UNCHANGED <<service, m_poTopOfComStack, opened, ip, m_apoInterruptQueue,
                    m_unComInterruptQueueCount, mConnectionsList, events, net,
                    mFBState, ecet, mRD, app, indicated, sent, mConnectionListChanged, anFDSetMaster>>
        /\ \/ hand' = HandlerAt("scan")
           \/ hand' = [HandlerAt("pass") EXCEPT !.ready = Ready, !.runner = BeginNode]
    BY DEF Handler, Select, stackVars, queueVars, listVars, appVars
  <1>2. hand'.at \in {"scan", "pass"} /\ hand' \in HandFields
    <2>1. Ready \subseteq {"data", "listen"} BY DEF BaseInv, TypeInv, SelectType, Ready
    <2>2. HandlerAt("pass") \in HandFields /\ HandlerAt("scan") \in HandFields
      BY Records DEF HandPlaces
    <2>3. CASE hand' = HandlerAt("scan") BY <2>2, <2>3, Records
    <2>4. CASE hand' = [HandlerAt("pass") EXCEPT !.ready = Ready, !.runner = BeginNode]
      <3>1. ASSUME NEW h \in HandFields, NEW r \in SUBSET {"data", "listen"}
            PROVE  /\ [h EXCEPT !.ready = r, !.runner = BeginNode] \in HandFields
                   /\ [h EXCEPT !.ready = r, !.runner = BeginNode].at = h.at
        BY DEF HandFields, Runners
      <3>2. HandlerAt("pass").at = "pass" BY Records
      <3> QED BY <2>1, <2>2, <2>4, <3>1, <3>2
    <2> QED BY <1>1, <2>3, <2>4
  <1>3. TypeInv'
    BY <1>1, <1>2, Frame DEF BaseInv, TypeInv, HandType
  <1>4. LayerInv'
    BY <1>1 DEF BaseInv, LayerInv, Sockets
  <1>5. CountInv'
    BY <1>1, <1>2 DEF BaseInv, CountInv, InCallback
  <1> QED BY <1>3, <1>4, <1>5 DEF BaseInv

-----------------------------------------------------------------------------
(* The walk over the list of call-backs.                                   *)
\* What a call-back may change of a living layer without touching its sockets.
LEMMA LayerFrame ==
  ASSUME LayerInv,
         UNCHANGED <<service, m_poTopOfComStack, mConnectionsList, mConnectionListChanged,
                     anFDSetMaster>>,
         ip'.mSocketID = ip.mSocketID, ip'.mListeningID = ip.mListeningID,
         ip'.m_eConnectionState = ip.m_eConnectionState
  PROVE  LayerInv' /\ Sockets' = Sockets
  BY DEF LayerInv, Sockets

\* Steps of the select thread in a call-back leave these alone.
LEMMA CallbackFacts ==
  ASSUME BaseInv, InCallback, CalleeLives
  PROVE  hand.node \in Node /\ hand.node.layer \in 1..MaxOpen /\ m_poTopOfComStack # 0
  BY Basics DEF BaseInv, CountInv, CalleeLives, Node

\* The rest of a list of at most two from an iterator, and its first ready one.
LEMMA PairRest ==
  ASSUME NEW a, NEW b
  PROVE  /\ SubSeq(<<a, b>>, 1, Len(<<a, b>>)) = <<a, b>>
         /\ SubSeq(<<a, b>>, 2, Len(<<a, b>>)) = <<b>>
         /\ SubSeq(<<a>>, 1, Len(<<a>>)) = <<a>>
  <1> DEFINE q == <<a, b>>
             T == {a, b}
  <1>1. q \in Seq(T) /\ Len(q) = 2 /\ q[1] = a /\ q[2] = b /\ <<a>> \in Seq(T) /\ <<b>> \in Seq(T)
    <2>1. a \in {a, b} /\ b \in {a, b} OBVIOUS
    <2> QED BY <2>1
  <1>2. SubSeq(<<a>>, 1, Len(<<a>>)) = <<a>> BY <1>1, SubSeqFull
  <1> HIDE DEF q, T
  <1>3. SubSeq(q, 1, Len(q)) = q BY <1>1, SubSeqFull
  <1>4. SubSeq(q, 2, 2) = <<q[2]>> \o SubSeq(q, 2 + 1, 2)
    <2>1. 2 \in 1..Len(q) /\ 2 \in 2..Len(q) BY <1>1
    <2> QED BY <2>1, <1>1, SubSeqRecursiveFirst
  <1>5. SubSeq(q, 2 + 1, 2) = <<>> BY SubSeqEmpty
  <1>6. SubSeq(q, 2, 2) = <<b>> BY <1>1, <1>4, <1>5, ConcatEmptySeq
  <1> QED BY <1>1, <1>2, <1>3, <1>6 DEF q

FirstReady(rest, ready) ==
  LET hits == {i \in DOMAIN rest : rest[i].fd \in ready} IN
  CHOOSE j \in hits : \A k \in hits : j <= k

\* The second of two is found when the first is not ready.
LEMMA SecondOfPair ==
  ASSUME NEW a, NEW b, NEW ready, a.fd \notin ready, b.fd \in ready
  PROVE  FirstReady(<<a, b>>, ready) = 2
  <1> DEFINE hits == {i \in DOMAIN <<a, b>> : <<a, b>>[i].fd \in ready}
  <1>1. hits = {2} OBVIOUS
  <1>2. FirstReady(<<a, b>>, ready) = CHOOSE j \in hits : \A k \in hits : j <= k
    BY DEF FirstReady
  <1>3. (CHOOSE j \in {2} : \A k \in {2} : j <= k) = 2 OBVIOUS
  <1> HIDE DEF hits
  <1> QED BY <1>1, <1>2, <1>3

\* Which entry of a list of at most two the walk finds first.
LEMMA FirstOfPair ==
  ASSUME NEW a, NEW b, NEW ready
  PROVE  /\ {i \in DOMAIN <<>> : <<>>[i].fd \in ready} = {}
         /\ a.fd \notin ready => {i \in DOMAIN <<a>> : <<a>>[i].fd \in ready} = {}
         /\ a.fd \in ready => /\ FirstReady(<<a>>, ready) = 1
                              /\ FirstReady(<<a, b>>, ready) = 1
         /\ a.fd \notin ready /\ b.fd \in ready => FirstReady(<<a, b>>, ready) = 2
         /\ a.fd \notin ready /\ b.fd \notin ready =>
              {i \in DOMAIN <<a, b>> : <<a, b>>[i].fd \in ready} = {}
  <1> DEFINE Hits(rest) == {i \in DOMAIN rest : rest[i].fd \in ready}
  <1>1. Hits(<<>>) = {} OBVIOUS
  <1>2. a.fd \notin ready => Hits(<<a>>) = {} OBVIOUS
  <1>3. a.fd \in ready => Hits(<<a>>) = {1} OBVIOUS
  <1>4. a.fd \in ready /\ b.fd \notin ready => Hits(<<a, b>>) = {1} OBVIOUS
  <1>5. a.fd \in ready /\ b.fd \in ready => Hits(<<a, b>>) = {1, 2} OBVIOUS
  <1>7. a.fd \notin ready /\ b.fd \notin ready => Hits(<<a, b>>) = {} OBVIOUS
  <1>8. \A rest : FirstReady(rest, ready) = CHOOSE j \in Hits(rest) : \A k \in Hits(rest) : j <= k
    BY DEF FirstReady
  <1>9. /\ (CHOOSE j \in {1} : \A k \in {1} : j <= k) = 1
        /\ (CHOOSE j \in {2} : \A k \in {2} : j <= k) = 2
        /\ (CHOOSE j \in {1, 2} : \A k \in {1, 2} : j <= k) = 1
    <2>1. \E j \in {1, 2} : \A k \in {1, 2} : j <= k OBVIOUS
    <2>2. (CHOOSE j \in {1, 2} : \A k \in {1, 2} : j <= k) = 1 BY <2>1
    <2> QED BY <2>2
  <1>10. a.fd \in ready => FirstReady(<<a>>, ready) = 1
    <2> HIDE DEF Hits
    <2> QED BY <1>3, <1>8, <1>9
  <1>11. a.fd \in ready => FirstReady(<<a, b>>, ready) = 1
    <2> HIDE DEF Hits
    <2> QED BY <1>4, <1>5, <1>8, <1>9
  <1>12. a.fd \notin ready /\ b.fd \in ready => FirstReady(<<a, b>>, ready) = 2
    BY SecondOfPair
  <1> QED BY <1>1, <1>2, <1>7, <1>10, <1>11, <1>12

\* Where the walk goes on: at the listening socket, the data socket or nowhere.
ListenNode == [fd |-> "listen", layer |-> m_poTopOfComStack]
DataNode == [fd |-> "data", layer |-> m_poTopOfComStack]
Calls(node, runner) == hand' = [hand EXCEPT !.at = "recv", !.node = node, !.runner = runner]
\* What run() calls next: the listening socket, the data socket or nothing.
LEMMA NextCallbackIs ==
  ASSUME TypeInv, LayerInv, NextCallback
  PROVE  /\ hand.at = "pass"
         /\ \/ hand' = HandlerAt("scan")
            \/ /\ hand.runner \in {BeginNode, ListenNode} /\ ip.mListeningID = "listen"
               /\ "listen" \in hand.ready
               /\ Calls(ListenNode, IF ip.mSocketID = "data" THEN DataNode ELSE EndNode)
            \/ /\ ip.mSocketID = "data" /\ "data" \in hand.ready
               /\ \/ hand.runner = DataNode
                  \/ /\ hand.runner \in {BeginNode, ListenNode}
                     /\ "listen" \notin hand.ready \/ ip.mListeningID = NoSocket
               /\ Calls(DataNode, EndNode)
  <1> DEFINE L == ListenNode
             D == DataNode
  <1>0. L = ListenNode /\ D = DataNode
    OBVIOUS
  <1>1. L.fd = "listen" /\ D.fd = "data" /\ L # D
    BY DEF ListenNode, DataNode
  <1>2. L \notin {BeginNode, EndNode} /\ D \notin {BeginNode, EndNode} /\ BeginNode # EndNode
    BY DEF ListenNode, DataNode, BeginNode, EndNode
  <1>3. /\ ip.mListeningID = "listen" /\ ip.mSocketID = "data" => mConnectionsList = <<L, D>>
        /\ ip.mListeningID = "listen" /\ ip.mSocketID = NoSocket => mConnectionsList = <<L>>
        /\ ip.mListeningID = NoSocket /\ ip.mSocketID = "data" => mConnectionsList = <<D>>
        /\ ip.mListeningID = NoSocket /\ ip.mSocketID = NoSocket => mConnectionsList = <<>>
    BY Basics DEF LayerInv, Listed, ListenNode, DataNode
  <1>4. ip.mSocketID \in {"data", NoSocket} /\ ip.mListeningID \in {"listen", NoSocket}
    BY DEF TypeInv, IPType, IPFields
  <1>5. hand.at = "pass" /\ IteratorValid
    BY DEF NextCallback
  <1> DEFINE Hits(q) == {i \in DOMAIN q : q[i].fd \in hand.ready}
             First(q) == FirstReady(q, hand.ready)
             Out(q) == IF Hits(q) = {} THEN hand' = HandlerAt("scan")
                       ELSE Calls(q[First(q)],
                                  IF First(q) < Len(q) THEN q[First(q) + 1] ELSE EndNode)
  <1>6. Out(Rest(hand.runner))
    BY DEF NextCallback, FirstReady, Calls
  <1> HIDE DEF L, D
  <1>7. Out(<<>>) => hand' = HandlerAt("scan")
    OBVIOUS
  <1>8. Out(<<L>>) => \/ hand' = HandlerAt("scan")
                      \/ "listen" \in hand.ready /\ Calls(L, EndNode)
    <2>1. "listen" \notin hand.ready => Hits(<<L>>) = {} BY <1>1, FirstOfPair
    <2>2. "listen" \in hand.ready => First(<<L>>) = 1 BY <1>1, FirstOfPair
    <2>3. Len(<<L>>) = 1 /\ <<L>>[1] = L OBVIOUS
    <2> HIDE DEF L, D, Hits, First
    <2> QED BY <2>1, <2>2, <2>3
  <1>9. Out(<<D>>) => \/ hand' = HandlerAt("scan")
                      \/ "data" \in hand.ready /\ Calls(D, EndNode)
    <2>1. "data" \notin hand.ready => Hits(<<D>>) = {} BY <1>1, FirstOfPair
    <2>2. "data" \in hand.ready => First(<<D>>) = 1 BY <1>1, FirstOfPair
    <2>3. Len(<<D>>) = 1 /\ <<D>>[1] = D OBVIOUS
    <2> HIDE DEF L, D, Hits, First
    <2> QED BY <2>1, <2>2, <2>3
  <1>10. Out(<<L, D>>) => \/ hand' = HandlerAt("scan")
                          \/ "listen" \in hand.ready /\ Calls(L, D)
                          \/ /\ "listen" \notin hand.ready /\ "data" \in hand.ready
                             /\ Calls(D, EndNode)
    <2>1. "listen" \notin hand.ready /\ "data" \notin hand.ready => Hits(<<L, D>>) = {}
      BY <1>1, FirstOfPair
    <2>2. "listen" \in hand.ready => First(<<L, D>>) = 1
      <3>1. L.fd \in hand.ready => FirstReady(<<L, D>>, hand.ready) = 1 BY FirstOfPair
      <3> QED BY <1>1, <3>1
    <2>3. "listen" \notin hand.ready /\ "data" \in hand.ready => First(<<L, D>>) = 2
      <3>1. CASE "listen" \notin hand.ready /\ "data" \in hand.ready
        <4>1. L.fd \notin hand.ready /\ D.fd \in hand.ready BY <1>1, <3>1
        <4> HIDE DEF L, D, First
        <4>2. FirstReady(<<L, D>>, hand.ready) = 2 BY <4>1, SecondOfPair
        <4> QED BY <4>2 DEF First
      <3> QED BY <3>1
    <2>4. Len(<<L, D>>) = 2 /\ <<L, D>>[1] = L /\ <<L, D>>[2] = D /\ 1 + 1 = 2 OBVIOUS
    <2> HIDE DEF L, D, Hits, First
    <2> QED BY <2>1, <2>2, <2>3, <2>4
  <1>11. \/ Rest(hand.runner) = <<>>
         \/ hand.runner = DataNode /\ ip.mSocketID = "data" /\ Rest(hand.runner) = <<D>>
         \/ /\ hand.runner \in {BeginNode, L} /\ Rest(hand.runner) = mConnectionsList
    <2>1. CASE hand.runner = EndNode BY <2>1 DEF Rest
    <2>2. CASE hand.runner = BeginNode BY <2>2, <1>2 DEF Rest
    <2>3. CASE hand.runner \notin {BeginNode, EndNode}
      <3>1. \E j \in DOMAIN mConnectionsList : mConnectionsList[j] = hand.runner
        BY <1>5, <2>3 DEF IteratorValid, ToSet
      <3>2. PICK i \in DOMAIN mConnectionsList :
              /\ mConnectionsList[i] = hand.runner
              /\ Rest(hand.runner) = SubSeq(mConnectionsList, i, Len(mConnectionsList))
        BY <2>3, <3>1 DEF Rest
      <3>3. /\ DOMAIN <<L, D>> = {1, 2} /\ <<L, D>>[1] = L /\ <<L, D>>[2] = D
            /\ DOMAIN <<L>> = {1} /\ <<L>>[1] = L /\ DOMAIN <<D>> = {1} /\ <<D>>[1] = D
            /\ DOMAIN <<>> = {}
        OBVIOUS
      <3> HIDE DEF L
      <3>4. CASE mConnectionsList = <<L, D>>
        <4>1. i = 1 \/ i = 2 BY <3>2, <3>3, <3>4
        <4>2. CASE i = 1 BY <3>2, <3>3, <3>4, <4>2, PairRest
        <4>3. CASE i = 2
          <5>1. ip.mSocketID = "data"
            BY <1>3, <1>4, <3>3, <3>4, <4>3, <3>2
          <5> QED BY <1>0, <3>2, <3>3, <3>4, <4>3, <5>1, PairRest
        <4> QED BY <4>1, <4>2, <4>3
      <3>5. CASE mConnectionsList = <<L>> BY <3>2, <3>3, <3>5, PairRest
      <3>6. CASE mConnectionsList = <<D>>
        <4>1. i = 1 /\ hand.runner = D /\ Rest(hand.runner) = <<D>>
          BY <3>2, <3>3, <3>6, PairRest
        <4>2. ip.mSocketID = "data"
          <5>1. mConnectionsList[1] = D /\ mConnectionsList # <<>> BY <3>3, <3>6
          <5> QED BY <5>1, <1>1, <1>3, <1>4, <3>3
        <4> QED BY <1>0, <4>1, <4>2
      <3>7. CASE mConnectionsList = <<>> BY <3>2, <3>3, <3>7
      <3> QED BY <1>3, <1>4, <3>4, <3>5, <3>6, <3>7
    <2> QED BY <2>1, <2>2, <2>3
  <1> HIDE DEF Out
  <1>12. CASE Rest(hand.runner) = <<>>
    BY <1>5, <1>6, <1>7, <1>12
  <1>13. CASE hand.runner = DataNode /\ ip.mSocketID = "data" /\ Rest(hand.runner) = <<D>>
    BY <1>0, <1>5, <1>6, <1>9, <1>13
  <1>14. CASE hand.runner \in {BeginNode, L} /\ Rest(hand.runner) = mConnectionsList
    <2>1. CASE ip.mListeningID = "listen" /\ ip.mSocketID = "data"
      BY <1>0, <1>3, <1>5, <1>6, <1>10, <1>14, <2>1
    <2>2. CASE ip.mListeningID = "listen" /\ ip.mSocketID = NoSocket
      BY <1>0, <1>3, <1>5, <1>6, <1>8, <1>14, <2>2, Basics
    <2>3. CASE ip.mListeningID = NoSocket /\ ip.mSocketID = "data"
      BY <1>0, <1>3, <1>5, <1>6, <1>9, <1>14, <2>3
    <2>4. CASE ip.mListeningID = NoSocket /\ ip.mSocketID = NoSocket
      BY <1>3, <1>5, <1>6, <1>7, <1>14, <2>4
    <2> QED BY <1>4, <2>1, <2>2, <2>3, <2>4
  <1> QED BY <1>11, <1>12, <1>13, <1>14

-----------------------------------------------------------------------------
(* Call-backs: attempts to connect.                                        *)
\* The places of the select thread are places.
LEMMA Places ==
  /\ \A w \in HandPlaces : \A h \in HandFields : /\ [h EXCEPT !.at = w] \in HandFields
                                                /\ [h EXCEPT !.at = w].at = w
                                                /\ [h EXCEPT !.at = w].node = h.node
                                                /\ [h EXCEPT !.at = w].n = h.n
                                                /\ [h EXCEPT !.at = w].runner = h.runner
                                                /\ [h EXCEPT !.at = w].ready = h.ready
  /\ {"scan", "select", "pass", "recv", "accept", "refuse", "read", "fill",
      "interrupt", "count", "notify"} \subseteq HandPlaces
  BY DEF HandPlaces, HandFields

\* What the list becomes when sockets are closed.
LEMMA ClosedLists ==
  ASSUME TypeInv, LayerInv
  PROVE  /\ WithoutCallback(mConnectionsList, "data")
              = Listed(ip.mListeningID, NoSocket, m_poTopOfComStack)
         /\ WithoutCallback(WithoutCallback(mConnectionsList, ip.mSocketID), ip.mListeningID) = <<>>
         /\ Descriptors(mConnectionsList) = Sockets
  <1>1. ip.mListeningID \in {"listen", NoSocket} /\ ip.mSocketID \in {"data", NoSocket}
    BY DEF TypeInv, IPType, IPFields
  <1>2. mConnectionsList = Listed(ip.mListeningID, ip.mSocketID, m_poTopOfComStack)
    BY DEF LayerInv
  <1> QED BY <1>1, <1>2, ListedFacts DEF Sockets

\* What the buffer holds when it has taken the first n messages sent.
LEMMA TakenBuffer ==
  ASSUME ip.mRecvBuffer \in Messages(BufferSize), net.inbox \in Messages(MaxMsgs),
         ip.mBufFillSize \in Nat, ip.mBufFillSize <= Len(ip.mRecvBuffer),
         NEW n \in Nat, n <= Len(net.inbox)
  PROVE  /\ SubSeq(ip.mRecvBuffer, 1, ip.mBufFillSize) \o SubSeq(net.inbox, 1, n) \in Seq(1..MaxMsgs)
         /\ Len(SubSeq(ip.mRecvBuffer, 1, ip.mBufFillSize) \o SubSeq(net.inbox, 1, n))
              = ip.mBufFillSize + n
  <1>1. ip.mRecvBuffer \in Seq(1..MaxMsgs) /\ net.inbox \in Seq(1..MaxMsgs)
    BY Basics, MessageFacts
  <1>2. /\ SubSeq(ip.mRecvBuffer, 1, ip.mBufFillSize) \in Seq(1..MaxMsgs)
        /\ Len(SubSeq(ip.mRecvBuffer, 1, ip.mBufFillSize)) = ip.mBufFillSize
    BY <1>1, FrontFacts
  <1>3. /\ SubSeq(net.inbox, 1, n) \in Seq(1..MaxMsgs)
        /\ Len(SubSeq(net.inbox, 1, n)) = n
    BY <1>1, FrontFacts
  <1> QED BY <1>2, <1>3, ConcatProperties

\* NextCallback keeps the basic invariant: the node called is the layer's.
LEMMA NextCallbackKeeps ==
  ASSUME BaseInv, Handler, NextCallback
  PROVE  BaseInv'
  <1>1. /\ UNCHANGED <<service, m_poTopOfComStack, opened, ip, m_apoInterruptQueue,
                    m_unComInterruptQueueCount, mConnectionsList, events, net,
                    mFBState, ecet, mRD, app, indicated, sent, mConnectionListChanged, anFDSetMaster>>
    BY DEF Handler, NextCallback, stackVars, queueVars, listVars, appVars
  <1>2. \/ hand' = HandlerAt("scan")
        \/ /\ m_poTopOfComStack \in 1..MaxOpen /\ m_poTopOfComStack <= opened
           /\ \E node \in {ListenNode, DataNode}, runner \in {DataNode, EndNode} : Calls(node, runner)
    <2>1. ip.mListeningID = "listen" \/ ip.mSocketID = "data" =>
            m_poTopOfComStack \in 1..MaxOpen /\ m_poTopOfComStack <= opened
      BY Records, Basics DEF BaseInv, TypeInv, StackType, LayerInv
    <2> QED BY <2>1, NextCallbackIs DEF BaseInv
  <1>3. hand' \in HandFields /\ (hand'.at = "scan" \/ (hand'.at = "recv" /\ hand'.node \in Node /\ hand'.node.layer <= opened))
    <2>1. m_poTopOfComStack \in 1..MaxOpen => ListenNode \in Node /\ DataNode \in Node
      BY DEF Node, ListenNode, DataNode
    <2>2. ListenNode.layer = m_poTopOfComStack /\ DataNode.layer = m_poTopOfComStack
      BY DEF ListenNode, DataNode
    <2>3. hand \in HandFields BY DEF BaseInv, TypeInv, HandType
    <2>4. CASE hand' = HandlerAt("scan") BY <2>4, Records, Places
    <2>5. ASSUME NEW node \in {ListenNode, DataNode}, NEW runner \in {DataNode, EndNode}, Calls(node, runner),
                 m_poTopOfComStack \in 1..MaxOpen /\ m_poTopOfComStack <= opened
          PROVE hand' \in HandFields /\ hand'.at = "recv" /\ hand'.node \in Node /\ hand'.node.layer <= opened
      <3>1. node \in Node /\ node.layer <= opened /\ runner \in Runners
        BY <2>1, <2>2, <2>5, Records
      <3> QED BY <2>3, <2>5, <3>1, Places DEF Calls, HandFields
    <2> QED BY <1>2, <2>4, <2>5
  <1>4. TypeInv'
    BY <1>1, <1>3, Frame DEF BaseInv, TypeInv, HandType
  <1>5. LayerInv'
    BY <1>1 DEF BaseInv, LayerInv, Sockets
  <1>6. CountInv'
    BY <1>1, <1>3 DEF BaseInv, CountInv, InCallback
  <1> QED BY <1>4, <1>5, <1>6 DEF BaseInv

\* RecvData keeps the basic invariant: it accepts only when listening.
LEMMA RecvDataKeeps ==
  ASSUME BaseInv, Handler, RecvData
  PROVE  BaseInv'
  <1>1. /\ UNCHANGED <<service, m_poTopOfComStack, opened, m_apoInterruptQueue,
                    m_unComInterruptQueueCount, mConnectionsList, events, net,
                    mFBState, ecet, mRD, app, indicated, sent, mConnectionListChanged, anFDSetMaster>>
        /\ ip' = [ip EXCEPT !.mInterruptResp = Nothing]
        /\ InCallback /\ CalleeLives /\ hand.at = "recv"
    BY DEF Handler, RecvData, stackVars, queueVars, listVars, appVars, InCallback
  <1>2. /\ hand \in HandFields /\ ip \in IPFields
    BY DEF BaseInv, TypeInv, HandType, IPType
  <1>3. /\ hand' \in HandFields /\ hand'.node = hand.node /\ hand'.at \in {"accept", "read", "refuse", "notify"}
        /\ hand'.at = "accept" => ip.m_eConnectionState = "Listening"
    BY <1>2, Places DEF RecvData, Goto
  <1>4. /\ ip' \in IPFields /\ ip'.mSocketID = ip.mSocketID /\ ip'.mListeningID = ip.mListeningID
        /\ ip'.m_eConnectionState = ip.m_eConnectionState
        /\ ip'.mBufFillSize = ip.mBufFillSize /\ ip'.mRecvBuffer = ip.mRecvBuffer
    BY <1>1, <1>2, Basics DEF IPFields
  <1>5. TypeInv'
    BY <1>1, <1>3, <1>4, Frame DEF BaseInv, TypeInv, HandType, IPType
  <1>6. LayerInv'
    BY <1>1, <1>4, LayerFrame, CallbackFacts DEF BaseInv
  <1>7. CountInv'
    BY <1>1, <1>3, <1>4 DEF BaseInv, CountInv, InCallback, CalleeLives
  <1> QED BY <1>5, <1>6, <1>7 DEF BaseInv

\* Accept keeps the basic invariant: the data socket goes behind the listening one.
LEMMA AcceptKeeps ==
  ASSUME BaseInv, Handler, Accept
  PROVE  BaseInv'
  <1>1. /\ UNCHANGED <<service, m_poTopOfComStack, opened, m_apoInterruptQueue,
                    m_unComInterruptQueueCount, events,
                    mFBState, ecet, mRD, app, indicated, sent, anFDSetMaster>>
        /\ ip' = [ip EXCEPT !.mSocketID = "data", !.m_eConnectionState = "Connected"]
        /\ mConnectionListChanged' = TRUE
        /\ mConnectionsList' = Append(mConnectionsList, [fd |-> "data", layer |-> m_poTopOfComStack])
        /\ net' = [NoTraffic EXCEPT !.backlog = net.backlog - 1]
        /\ hand' = [hand EXCEPT !.at = "notify"]
        /\ net.backlog > 0 /\ InCallback /\ CalleeLives /\ hand.at = "accept"
    BY DEF Handler, Accept, stackVars, queueVars, appVars, InCallback, AddComCallback, Goto, CalleeLives
  <1>2. /\ hand \in HandFields /\ ip \in IPFields /\ net \in NetFields
    BY DEF BaseInv, TypeInv, HandType, IPType, NetType
  <1>3. /\ hand' \in HandFields /\ hand'.node = hand.node /\ hand'.at = "notify"
    BY <1>1, <1>2, Places
  <1>4. /\ ip' \in IPFields /\ ip'.mSocketID = "data" /\ ip'.mListeningID = ip.mListeningID
        /\ ip'.m_eConnectionState = "Connected"
        /\ ip'.mBufFillSize = ip.mBufFillSize /\ ip'.mRecvBuffer = ip.mRecvBuffer
    BY <1>1, <1>2 DEF IPFields
  <1>5. net' \in NetFields /\ net'.inbox = <<>>
    <2>1. net.backlog - 1 \in 0..1 BY <1>1, <1>2 DEF NetFields
    <2> QED BY <1>1, <2>1, Basics DEF NetFields
  <1>6. /\ ip.m_eConnectionState = "Listening" /\ ip.mSocketID = NoSocket
        /\ service = "Server" /\ m_poTopOfComStack # 0
    BY <1>1, <1>2, CallbackFacts DEF BaseInv, CountInv, LayerInv, IPFields
  <1>7. TypeInv'
    <2>1. NetType' BY <1>1, <1>5 DEF BaseInv, TypeInv, NetType
    <2>2. SelectType' BY <1>1 DEF BaseInv, TypeInv, SelectType
    <2> QED BY <1>1, <1>3, <1>4, <2>1, <2>2, Frame DEF BaseInv, TypeInv, HandType, IPType
  <1>8. LayerInv'
    <2>1. ip.mListeningID \in {"listen", NoSocket} BY <1>2 DEF IPFields
    <2>2. mConnectionsList' = Listed(ip.mListeningID, "data", m_poTopOfComStack)
      BY <1>1, <1>6, <2>1, ListedFacts DEF BaseInv, LayerInv
    <2>3. mConnectionListChanged' = TRUE /\ ip'.mSocketID # NoSocket BY <1>1, <1>4, Basics
    <2> QED BY <1>1, <1>4, <1>6, <2>2, <2>3 DEF BaseInv, LayerInv
  <1>9. CountInv'
    <2>1. 0 <= sent BY DEF BaseInv, TypeInv, NetType
    <2> QED BY <1>1, <1>3, <1>4, <1>5, <2>1, Basics DEF BaseInv, CountInv, InCallback, CalleeLives
  <1> QED BY <1>7, <1>8, <1>9 DEF BaseInv

\* Refuse keeps the basic invariant.
LEMMA RefuseKeeps ==
  ASSUME BaseInv, Handler, Refuse
  PROVE  BaseInv'
  <1>1. /\ UNCHANGED <<service, m_poTopOfComStack, opened, m_apoInterruptQueue, ip,
                    m_unComInterruptQueueCount, events, mConnectionsList, mConnectionListChanged,
                    mFBState, ecet, mRD, app, indicated, sent, anFDSetMaster>>
        /\ net' = [net EXCEPT !.backlog = @ - 1]
        /\ hand' = [hand EXCEPT !.at = "notify"]
        /\ net.backlog > 0 /\ InCallback /\ CalleeLives /\ hand.at = "refuse"
    BY DEF Handler, Refuse, stackVars, queueVars, listVars, appVars, InCallback, Goto
  <1>2. /\ hand \in HandFields /\ net \in NetFields
    BY DEF BaseInv, TypeInv, HandType, NetType
  <1>3. /\ hand' \in HandFields /\ hand'.node = hand.node /\ hand'.at = "notify"
    BY <1>1, <1>2, Places
  <1>4. net' \in NetFields /\ net'.inbox = net.inbox
    <2>1. net.backlog - 1 \in 0..1 BY <1>1, <1>2 DEF NetFields
    <2> QED BY <1>1, <1>2, <2>1 DEF NetFields
  <1>5. TypeInv'
    <2>1. NetType' BY <1>1, <1>4 DEF BaseInv, TypeInv, NetType
    <2> QED BY <1>1, <1>3, <2>1, Frame DEF BaseInv, TypeInv, HandType
  <1>6. LayerInv'
    BY <1>1 DEF BaseInv, LayerInv, Sockets
  <1>7. CountInv'
    BY <1>1, <1>3, <1>4 DEF BaseInv, CountInv, InCallback, CalleeLives
  <1> QED BY <1>5, <1>6, <1>7 DEF BaseInv

-----------------------------------------------------------------------------
(* Call-backs: data, interrupts and the external event.                    *)
\* ReadData keeps the basic invariant: what is received fits under the buffer's end.
LEMMA ReadDataKeeps ==
  ASSUME BaseInv, Handler, ReadData
  PROVE  BaseInv'
  <1> DEFINE n == IF service = "Subscriber" THEN 1 ELSE Least(Room, Len(net.inbox))
             buffer == SubSeq(ip.mRecvBuffer, 1, ip.mBufFillSize) \o SubSeq(net.inbox, 1, n)
             rest == SubSeq(net.inbox, n + 1, Len(net.inbox))
  <1>1. /\ UNCHANGED <<service, m_poTopOfComStack, opened, m_apoInterruptQueue,
                    m_unComInterruptQueueCount, mConnectionsList, events,
                    mFBState, ecet, mRD, app, indicated, sent, mConnectionListChanged, anFDSetMaster>>
        /\ ip' = [ip EXCEPT !.mRecvBuffer = buffer]
        /\ net' = [net EXCEPT !.inbox = rest]
        /\ hand' = [hand EXCEPT !.at = "fill", !.n = n]
        /\ InCallback /\ CalleeLives /\ Room > 0 /\ net.inbox # <<>>
    BY DEF Handler, ReadData, stackVars, queueVars, listVars, appVars, InCallback
  <1>2. /\ hand \in HandFields /\ ip \in IPFields /\ net \in NetFields
    BY DEF BaseInv, TypeInv, HandType, IPType, NetType
  <1>3. /\ net.inbox \in Messages(MaxMsgs) /\ ip.mRecvBuffer \in Messages(BufferSize)
        /\ ip.mBufFillSize \in 0..BufferSize /\ ip.mBufFillSize <= Len(ip.mRecvBuffer)
        /\ Len(net.inbox) <= sent
    BY <1>2 DEF BaseInv, CountInv, IPFields, NetFields
  <1>4. Len(net.inbox) \in Nat /\ Len(net.inbox) >= 1
    <2>1. net.inbox \in Seq(1..MaxMsgs) BY <1>3, Basics, MessageFacts
    <2> QED BY <1>1, <2>1, EmptySeq
  <1>5. n \in Nat /\ n <= Len(net.inbox) /\ n <= Room /\ n >= 1 /\ Room = BufferSize - ip.mBufFillSize
    <2>1. Room = BufferSize - ip.mBufFillSize /\ Room \in Nat /\ Room >= 1
      <3>1. ip.mBufFillSize \in Nat /\ ip.mBufFillSize <= BufferSize /\ BufferSize \in Nat
        BY <1>3, Basics
      <3>2. Room = BufferSize - ip.mBufFillSize BY DEF Room
      <3>3. Room > 0 BY <1>1
      <3> QED BY <3>1, <3>2, <3>3
    <2> QED BY <1>4, <2>1 DEF Least
  <1> HIDE DEF n
  <1>6. /\ buffer \in Messages(BufferSize) /\ Len(buffer) = ip.mBufFillSize + n
        /\ rest \in Messages(MaxMsgs) /\ Len(rest) = Len(net.inbox) - n
    <2>1. ip.mBufFillSize \in Nat /\ ip.mBufFillSize + n \in Nat /\ ip.mBufFillSize + n <= BufferSize
      BY <1>3, <1>5, Basics
    <2>2. buffer \in Seq(1..MaxMsgs) /\ Len(buffer) = ip.mBufFillSize + n
      <3>1. /\ ip.mRecvBuffer \in Messages(BufferSize) /\ net.inbox \in Messages(MaxMsgs)
            /\ BufferSize \in Nat /\ MaxMsgs \in Nat
        BY <1>3, Basics
      <3>2. /\ SubSeq(ip.mRecvBuffer, 1, ip.mBufFillSize) \o SubSeq(net.inbox, 1, n) \in Seq(1..MaxMsgs)
            /\ Len(SubSeq(ip.mRecvBuffer, 1, ip.mBufFillSize) \o SubSeq(net.inbox, 1, n))
                 = ip.mBufFillSize + n
        <4>1. /\ ip.mBufFillSize \in Nat /\ n \in Nat /\ ip.mBufFillSize <= Len(ip.mRecvBuffer)
              /\ n <= Len(net.inbox)
          BY <1>3, <1>5, <2>1
        <4> QED BY <3>1, <4>1, TakenBuffer
      <3> QED BY <3>2
    <2>3. rest \in Messages(MaxMsgs) /\ Len(rest) = Len(net.inbox) - n
      <3>1. MaxMsgs \in Nat /\ net.inbox \in Messages(MaxMsgs) /\ n \in Nat /\ n <= Len(net.inbox)
        BY <1>3, <1>5, Basics
      <3> QED BY <3>1, RestOfMessages
    <2> HIDE DEF buffer
    <2>4. buffer \in Messages(BufferSize) BY <2>1, <2>2, Basics, MessageFacts
    <2> QED BY <2>2, <2>3, <2>4
  <1> HIDE DEF buffer, rest
  <1>7. /\ hand' \in HandFields /\ hand'.node = hand.node /\ hand'.at = "fill" /\ hand'.n = n
    BY <1>1, <1>2, <1>5, Places DEF HandFields
  <1>8. /\ ip' \in IPFields /\ ip'.mSocketID = ip.mSocketID /\ ip'.mListeningID = ip.mListeningID
        /\ ip'.m_eConnectionState = ip.m_eConnectionState
        /\ ip'.mBufFillSize = ip.mBufFillSize /\ ip'.mRecvBuffer = buffer
    BY <1>1, <1>2, <1>6 DEF IPFields
  <1>9. net' \in NetFields /\ net'.inbox = rest
    BY <1>1, <1>2, <1>6 DEF NetFields
  <1>10. TypeInv'
    <2>1. NetType' BY <1>1, <1>9 DEF BaseInv, TypeInv, NetType
    <2> QED BY <1>1, <1>7, <1>8, <2>1, Frame DEF BaseInv, TypeInv, HandType, IPType
  <1>11. LayerInv'
    BY <1>1, <1>8, LayerFrame, CallbackFacts DEF BaseInv
  <1>12. CountInv'
    <2>1. Len(rest) <= sent /\ ip'.mBufFillSize + n <= Len(buffer) /\ ip'.mBufFillSize <= Len(buffer)
      <3>1. ip.mBufFillSize \in Nat /\ sent \in Nat
        BY <1>3, Basics DEF BaseInv, TypeInv, NetType
      <3>2. Len(rest) <= sent BY <1>3, <1>4, <1>5, <1>6, <3>1
      <3> QED BY <1>5, <1>6, <1>8, <3>1, <3>2
    <2> QED BY <1>1, <1>7, <1>8, <1>9, <2>1 DEF BaseInv, CountInv, InCallback, CalleeLives
  <1> QED BY <1>10, <1>11, <1>12 DEF BaseInv

\* FillBuffer keeps the basic invariant: the count follows the bytes.
LEMMA FillBufferKeeps ==
  ASSUME BaseInv, Handler, FillBuffer
  PROVE  BaseInv'
  <1>1. /\ UNCHANGED <<service, m_poTopOfComStack, opened, m_apoInterruptQueue,
                    m_unComInterruptQueueCount, mConnectionsList, events, net,
                    mFBState, ecet, mRD, app, indicated, sent, mConnectionListChanged, anFDSetMaster>>
        /\ ip' = [ip EXCEPT !.mBufFillSize = @ + hand.n, !.mInterruptResp = ProcessDataOk]
        /\ hand' = [hand EXCEPT !.at = "interrupt", !.n = 0]
        /\ InCallback /\ CalleeLives /\ hand.at = "fill"
    BY DEF Handler, FillBuffer, stackVars, queueVars, listVars, appVars, InCallback
  <1>2. /\ hand \in HandFields /\ ip \in IPFields
    BY DEF BaseInv, TypeInv, HandType, IPType
  <1>3. /\ hand.n \in Nat /\ ip.mBufFillSize \in 0..BufferSize
        /\ ip.mBufFillSize + hand.n <= Len(ip.mRecvBuffer) /\ Len(ip.mRecvBuffer) <= BufferSize
        /\ Len(ip.mRecvBuffer) \in Nat
    <2>1. ip.mRecvBuffer \in Messages(BufferSize) BY <1>2 DEF IPFields
    <2>2. Len(ip.mRecvBuffer) <= BufferSize /\ Len(ip.mRecvBuffer) \in Nat
      BY <2>1, Basics, MessageFacts, LenProperties
    <2> QED BY <1>1, <1>2, <2>2 DEF BaseInv, CountInv, HandFields, IPFields
  <1>4. /\ hand' \in HandFields /\ hand'.node = hand.node /\ hand'.at = "interrupt"
    BY <1>1, <1>2, Places DEF HandFields
  <1>5. /\ ip' \in IPFields /\ ip'.mSocketID = ip.mSocketID /\ ip'.mListeningID = ip.mListeningID
        /\ ip'.m_eConnectionState = ip.m_eConnectionState
        /\ ip'.mBufFillSize = ip.mBufFillSize + hand.n /\ ip'.mRecvBuffer = ip.mRecvBuffer
    <2>1. ip.mBufFillSize + hand.n \in 0..BufferSize BY <1>3, Basics
    <2> QED BY <1>1, <1>2, <2>1, Basics DEF IPFields
  <1>6. TypeInv'
    BY <1>1, <1>4, <1>5, Frame DEF BaseInv, TypeInv, HandType, IPType
  <1>7. LayerInv'
    BY <1>1, <1>5, LayerFrame, CallbackFacts DEF BaseInv
  <1>8. CountInv'
    BY <1>1, <1>3, <1>4, <1>5 DEF BaseInv, CountInv, InCallback, CalleeLives
  <1> QED BY <1>6, <1>7, <1>8 DEF BaseInv

\* Closing the data socket.
LEMMA CloseDataFacts ==
  ASSUME BaseInv, CloseDataSocket, ip'.mSocketID = NoSocket, ip'.mListeningID = ip.mListeningID,
         UNCHANGED <<service, m_poTopOfComStack, anFDSetMaster>>, m_poTopOfComStack # 0,
         ip'.m_eConnectionState = IF service = "Server" THEN "Listening" ELSE ip.m_eConnectionState
  PROVE  /\ LayerInv' /\ SelectType'
         /\ net' \in NetFields /\ net'.inbox = <<>>
  <1>1. /\ mConnectionListChanged' = TRUE
        /\ mConnectionsList' = WithoutCallback(mConnectionsList, "data")
        /\ net' = [NoTraffic EXCEPT !.backlog = net.backlog]
    BY DEF CloseDataSocket, RemoveComCallback
  <1>2. net' \in NetFields /\ net'.inbox = <<>>
    BY <1>1, Basics DEF BaseInv, TypeInv, NetType, NetFields
  <1>3. SelectType'
    BY <1>1 DEF BaseInv, TypeInv, SelectType
  <1>4. mConnectionsList' = Listed(ip.mListeningID, NoSocket, m_poTopOfComStack)
    BY <1>1, ClosedLists DEF BaseInv
  <1>5. LayerInv'
    BY <1>1, <1>4, Basics DEF BaseInv, LayerInv
  <1> QED BY <1>2, <1>3, <1>5

\* ReadNothing keeps the basic invariant: the closed socket leaves the list.
LEMMA ReadNothingKeeps ==
  ASSUME BaseInv, Handler, ReadNothing
  PROVE  BaseInv'
  <1>1. /\ UNCHANGED <<service, m_poTopOfComStack, opened, m_apoInterruptQueue,
                    m_unComInterruptQueueCount, events,
                    mFBState, ecet, mRD, app, indicated, sent, anFDSetMaster>>
        /\ InCallback /\ CalleeLives
    BY DEF Handler, ReadNothing, stackVars, queueVars, listVars, appVars, InCallback
  <1>2. /\ hand \in HandFields /\ ip \in IPFields
    BY DEF BaseInv, TypeInv, HandType, IPType
  <1>3. CASE ip.mSocketID = NoSocket
    <2>1. UNCHANGED <<ip, mConnectionsList, mConnectionListChanged, net>> /\ Goto("notify")
      BY <1>3 DEF ReadNothing, listVars
    <2>2. hand' \in HandFields /\ hand'.node = hand.node /\ hand'.at = "notify"
      BY <1>2, <2>1, Places DEF Goto
    <2>3. TypeInv'
      BY <1>1, <2>1, <2>2, Frame DEF BaseInv, TypeInv, HandType
    <2>4. LayerInv'
      BY <1>1, <2>1 DEF BaseInv, LayerInv, Sockets
    <2>5. CountInv'
      BY <1>1, <2>1, <2>2 DEF BaseInv, CountInv, InCallback, CalleeLives
    <2> QED BY <2>3, <2>4, <2>5 DEF BaseInv
  <1>4. CASE ip.mSocketID # NoSocket
    <2>1. /\ ip' = [ip EXCEPT !.mInterruptResp = InitTerminated, !.mSocketID = NoSocket,
                              !.m_eConnectionState = StateAfterPeerClose]
          /\ CloseDataSocket /\ Goto("interrupt")
      BY <1>4 DEF ReadNothing
    <2>2. hand' \in HandFields /\ hand'.node = hand.node /\ hand'.at = "interrupt"
      BY <1>2, <2>1, Places DEF Goto
    <2>3. /\ ip' \in IPFields /\ ip'.mSocketID = NoSocket /\ ip'.mListeningID = ip.mListeningID
          /\ ip'.m_eConnectionState = IF service = "Server" THEN "Listening" ELSE ip.m_eConnectionState
          /\ ip'.mBufFillSize = ip.mBufFillSize /\ ip'.mRecvBuffer = ip.mRecvBuffer
      <3>1. StateAfterPeerClose = IF service = "Server" THEN "Listening" ELSE ip.m_eConnectionState
        BY DEF StateAfterPeerClose
      <3>2. StateAfterPeerClose \in {"Disconnected", "Listening", "Connected"}
        BY <1>2, <3>1 DEF IPFields
      <3>3. InitTerminated \in Responses BY Basics
      <3> QED BY <1>2, <2>1, <3>1, <3>2, <3>3 DEF IPFields
    <2>4. LayerInv' /\ SelectType' /\ net' \in NetFields /\ net'.inbox = <<>>
      BY <1>1, <2>1, <2>3, CloseDataFacts, CallbackFacts
    <2>5. TypeInv'
      <3>1. NetType' BY <1>1, <2>4 DEF BaseInv, TypeInv, NetType
      <3> QED BY <1>1, <2>2, <2>3, <2>4, <3>1, Frame DEF BaseInv, TypeInv, HandType, IPType
    <2>6. CountInv'
      <3>1. 0 <= sent BY DEF BaseInv, TypeInv, NetType
      <3> QED BY <1>1, <2>2, <2>3, <2>4, <3>1, Basics DEF BaseInv, CountInv, InCallback, CalleeLives
    <2> QED BY <2>4, <2>5, <2>6 DEF BaseInv
  <1> QED BY <1>3, <1>4

\* InterruptEntry keeps the basic invariant: the entry is inside the queue.
LEMMA InterruptEntryKeeps ==
  ASSUME BaseInv, Handler, InterruptEntry
  PROVE  BaseInv'
  <1>1. /\ UNCHANGED <<service, m_poTopOfComStack, opened, ip, net, mConnectionsList, mConnectionListChanged,
                    m_unComInterruptQueueCount, events,
                    mFBState, ecet, mRD, app, indicated, sent, anFDSetMaster>>
        /\ InCallback /\ CalleeLives
    BY DEF Handler, InterruptEntry, stackVars, listVars, appVars, InCallback
  <1>2. /\ hand \in HandFields
    BY DEF BaseInv, TypeInv, HandType
  <1>3. hand.node.layer \in 0..MaxOpen
    BY <1>1, CallbackFacts, Basics
  <1>4. \/ /\ m_unComInterruptQueueCount < QueueSize
           /\ m_apoInterruptQueue' = [m_apoInterruptQueue EXCEPT
                                        ![m_unComInterruptQueueCount + 1] = hand.node.layer]
           /\ hand' = [hand EXCEPT !.at = "count", !.n = m_unComInterruptQueueCount]
        \/ /\ UNCHANGED m_apoInterruptQueue /\ hand' = [hand EXCEPT !.at = "notify"]
    BY DEF InterruptEntry, Goto
  <1>5. m_unComInterruptQueueCount \in Nat /\ QueueType'
    <2>1. /\ m_unComInterruptQueueCount \in 0..QueueSize
          /\ m_apoInterruptQueue \in [1..QueueSize -> 0..MaxOpen]
      BY DEF BaseInv, TypeInv, QueueType
    <2>2. m_unComInterruptQueueCount \in Nat BY <2>1, Basics
    <2>3. m_apoInterruptQueue' \in [1..QueueSize -> 0..MaxOpen] BY <1>3, <1>4, <2>1
    <2> QED BY <1>1, <2>1, <2>2, <2>3 DEF QueueType
  <1>6. /\ hand' \in HandFields /\ hand'.node = hand.node /\ hand'.at \in {"notify", "count"}
        /\ hand'.at = "count" => /\ hand'.n = m_unComInterruptQueueCount
                                 /\ m_unComInterruptQueueCount < QueueSize
    <2>1. CASE hand' = [hand EXCEPT !.at = "notify"] BY <1>2, <2>1, Places
    <2>2. CASE hand' = [hand EXCEPT !.at = "count", !.n = m_unComInterruptQueueCount]
               /\ m_unComInterruptQueueCount < QueueSize
      BY <1>2, <1>5, <2>2, Places DEF HandFields
    <2> QED BY <1>4, <2>1, <2>2
  <1>7. TypeInv'
    BY <1>1, <1>5, <1>6, Frame DEF BaseInv, TypeInv, HandType
  <1>8. LayerInv'
    BY <1>1 DEF BaseInv, LayerInv, Sockets
  <1>9. CountInv'
    BY <1>1, <1>5, <1>6, Basics DEF BaseInv, CountInv, InCallback, CalleeLives
  <1> QED BY <1>7, <1>8, <1>9 DEF BaseInv

\* InterruptCount keeps the basic invariant: the count written is one above a count
\* that the other thread can only have lowered.
LEMMA InterruptCountKeeps ==
  ASSUME BaseInv, Handler, InterruptCount
  PROVE  BaseInv'
  <1>1. /\ UNCHANGED <<service, m_poTopOfComStack, opened, ip, net, mConnectionsList, mConnectionListChanged,
                    m_apoInterruptQueue, events,
                    mFBState, ecet, mRD, app, indicated, sent, anFDSetMaster>>
        /\ m_unComInterruptQueueCount' = hand.n + 1
        /\ hand' = [hand EXCEPT !.at = "notify", !.n = 0]
        /\ InCallback /\ CalleeLives /\ hand.at = "count"
    BY DEF Handler, InterruptCount, stackVars, listVars, appVars, InCallback
  <1>2. /\ hand \in HandFields /\ hand.n \in Nat /\ hand.n < QueueSize
        /\ m_unComInterruptQueueCount <= hand.n /\ m_unComInterruptQueueCount \in Nat
    BY <1>1, Basics DEF BaseInv, TypeInv, HandType, HandFields, CountInv, QueueType
  <1>3. QueueType'
    BY <1>1, <1>2, Basics DEF BaseInv, TypeInv, QueueType
  <1>4. /\ hand' \in HandFields /\ hand'.node = hand.node /\ hand'.at = "notify"
    BY <1>1, <1>2, Places DEF HandFields
  <1>5. TypeInv'
    BY <1>1, <1>3, <1>4, Frame DEF BaseInv, TypeInv, HandType
  <1>6. LayerInv'
    BY <1>1 DEF BaseInv, LayerInv, Sockets
  <1>7. CountInv'
    <2>1. ecet \in EcetFields BY DEF BaseInv, TypeInv, EcetType
    <2>2. ecet.copy \in Nat /\ ecet.n \in Nat BY <2>1, Basics DEF EcetFields
    <2>3. ecet.at \in {"process", "empty"} => ecet.copy <= m_unComInterruptQueueCount'
      BY <1>1, <1>2, <2>2 DEF BaseInv, CountInv
    <2>4. ecet.at = "count" => ecet.copy <= ecet.n /\ ecet.n <= m_unComInterruptQueueCount'
      BY <1>1, <1>2, <2>2 DEF BaseInv, CountInv
    <2> QED BY <1>1, <1>4, <2>3, <2>4 DEF BaseInv, CountInv, InCallback, CalleeLives
  <1> QED BY <1>5, <1>6, <1>7 DEF BaseInv

\* Notify keeps the basic invariant: a full external list drops the event.
LEMMA NotifyKeeps ==
  ASSUME BaseInv, Handler, Notify
  PROVE  BaseInv'
  <1>1. /\ UNCHANGED <<service, m_poTopOfComStack, opened, ip, net, mConnectionsList, mConnectionListChanged,
                    m_apoInterruptQueue, m_unComInterruptQueueCount,
                    mFBState, ecet, mRD, app, indicated, sent, anFDSetMaster>>
        /\ events' = EventsAfterNotify
        /\ hand' = [hand EXCEPT !.at = "pass", !.node = EndNode]
    BY DEF Handler, Notify, stackVars, listVars, queueVars, appVars
  <1>2. hand \in HandFields /\ hand' \in HandFields /\ hand'.at = "pass"
    BY <1>1, Places DEF BaseInv, TypeInv, HandType, HandFields
  <1>3. events' \in 0..ExtSize
    BY <1>1, Basics DEF BaseInv, TypeInv, NetType, EventsAfterNotify
  <1>4. TypeInv'
    <2>1. NetType' BY <1>1, <1>3 DEF BaseInv, TypeInv, NetType
    <2> QED BY <1>1, <1>2, <2>1, Frame DEF BaseInv, TypeInv, HandType
  <1>5. LayerInv'
    BY <1>1 DEF BaseInv, LayerInv, Sockets
  <1>6. CountInv'
    BY <1>1, <1>2 DEF BaseInv, CountInv, InCallback
  <1> QED BY <1>4, <1>5, <1>6 DEF BaseInv

-----------------------------------------------------------------------------
(* The event chain thread: connection and interrupts.                      *)
\* Closing the connection, whoever does it.
LEMMA CloseFacts ==
  ASSUME BaseInv, CloseConnection, UNCHANGED <<service, opened, anFDSetMaster, hand, sent>>
  PROVE  /\ StackType' /\ IPType' /\ LayerInv' /\ SelectType'
         /\ net' \in NetFields /\ Len(net'.inbox) <= sent
         /\ InCallback /\ CalleeLives' => UNCHANGED <<m_poTopOfComStack, ip>>
         /\ ip'.mBufFillSize <= Len(ip'.mRecvBuffer)
  <1>1. CASE m_poTopOfComStack = 0
    <2>1. UNCHANGED <<m_poTopOfComStack, ip, mConnectionsList, mConnectionListChanged, net>>
      BY <1>1 DEF CloseConnection, listVars
    <2>2. StackType' /\ IPType' /\ SelectType'
      BY <2>1, Frame DEF BaseInv
    <2>3. LayerInv'
      BY <2>1 DEF BaseInv, LayerInv, Sockets
    <2>4. /\ net' \in NetFields /\ Len(net'.inbox) <= sent
          /\ ip'.mBufFillSize <= Len(ip'.mRecvBuffer)
      BY <2>1 DEF BaseInv, TypeInv, NetType, CountInv
    <2> QED BY <2>1, <2>2, <2>3, <2>4
  <1>2. CASE m_poTopOfComStack # 0
    <2>1. /\ m_poTopOfComStack' = 0 /\ ip' = NewLayer /\ net' = NoTraffic
          /\ mConnectionsList' = <<>>
          /\ mConnectionListChanged' = (mConnectionListChanged \/ Sockets # {})
      BY <1>2, ClosedLists DEF CloseConnection, BaseInv
    <2>2. StackType' /\ IPType'
      BY <2>1, Records DEF BaseInv, TypeInv, StackType, IPType
    <2>3. SelectType'
      BY <2>1 DEF BaseInv, TypeInv, SelectType
    <2>4. Sockets' = {} /\ Listed(NoSocket, NoSocket, 0) = <<>>
      BY <2>1, Records, Basics DEF Sockets, Listed
    <2>5. mConnectionListChanged' \/ anFDSetMaster' = Sockets'
      BY <2>1, <2>4 DEF BaseInv, LayerInv
    <2>6. LayerInv'
      BY <2>1, <2>4, <2>5, Records, Basics DEF BaseInv, LayerInv
    <2>7. ~(InCallback /\ CalleeLives')
      BY <2>1 DEF BaseInv, CountInv, CalleeLives, Node
    <2>8. Len(<<>>) <= sent
      BY Basics DEF BaseInv, TypeInv, NetType
    <2>9. /\ net' \in NetFields /\ Len(net'.inbox) <= sent
          /\ ip'.mBufFillSize <= Len(ip'.mRecvBuffer)
      BY <2>1, <2>8, Records, Basics
    <2> QED BY <2>2, <2>3, <2>6, <2>7, <2>9
  <1> QED BY <1>1, <1>2

\* A response is one of the three, and so is the greater of two.
LEMMA Responding ==
  ASSUME ecet \in EcetFields, NEW resp \in Responses, NextInterrupt(resp)
  PROVE  /\ ecet' \in EcetFields /\ ecet'.copy = ecet.copy /\ ecet'.at = "process"
         /\ ecet'.i = ecet.i + 1 /\ ecet'.ret = Greater(ecet.ret, resp) /\ ecet'.n = ecet.n
  <1>1. ecet' = [ecet EXCEPT !.at = "process", !.i = ecet.i + 1, !.ret = Greater(ecet.ret, resp)]
    BY DEF NextInterrupt
  <1>2. Greater(ecet.ret, resp) \in Responses /\ ecet.i + 1 \in Nat \ {0}
    BY Basics DEF EcetFields, Greater
  <1> QED BY <1>1, <1>2 DEF EcetFields

\* ExternalEvent keeps the basic invariant: the copy is the count.
LEMMA ExternalEventKeeps ==
  ASSUME BaseInv, ExternalEvent
  PROVE  BaseInv'
  <1>1. /\ UNCHANGED <<service, m_poTopOfComStack, opened, ip, m_apoInterruptQueue,
                       m_unComInterruptQueueCount, mConnectionsList, mConnectionListChanged,
                       anFDSetMaster, hand, net, mFBState, mRD, app, indicated, sent>>
        /\ events > 0 /\ events' = events - 1 /\ ecet.at = "idle"
        /\ \/ ecet' = ecet
           \/ ecet' = [Ecet("process") EXCEPT !.copy = m_unComInterruptQueueCount]
    BY DEF ExternalEvent, ipVars, stackVars, queueVars, listVars, handVars, appVars
  <1>2. /\ ecet \in EcetFields /\ m_unComInterruptQueueCount \in 0..QueueSize
    BY DEF BaseInv, TypeInv, EcetType, QueueType
  <1>3. /\ ecet' \in EcetFields
        /\ \/ ecet' = ecet
           \/ ecet'.at = "process" /\ ecet'.copy = m_unComInterruptQueueCount
    BY <1>1, <1>2, Records DEF EcetFields
  <1>4. TypeInv'
    <2>1. events' \in 0..ExtSize BY <1>1, Basics DEF BaseInv, TypeInv, NetType
    <2>2. NetType' BY <1>1, <2>1 DEF BaseInv, TypeInv, NetType
    <2> QED BY <1>1, <1>3, <2>2, Frame DEF BaseInv, TypeInv, EcetType
  <1>5. LayerInv'
    BY <1>1 DEF BaseInv, LayerInv, Sockets
  <1>6. CountInv'
    BY <1>1, <1>2, <1>3, Basics DEF BaseInv, CountInv, InCallback, CalleeLives
  <1> QED BY <1>4, <1>5, <1>6 DEF BaseInv

\* ProcessInterrupt keeps the basic invariant: what is handed up lies in the buffer.
LEMMA ProcessInterruptKeeps ==
  ASSUME BaseInv, ProcessInterrupt
  PROVE  BaseInv'
  <1>1. /\ UNCHANGED <<service, m_poTopOfComStack, opened, ip, m_apoInterruptQueue,
                       m_unComInterruptQueueCount, mConnectionsList, mConnectionListChanged,
                       anFDSetMaster, hand, events, net, mFBState, app, indicated, sent>>
        /\ ecet.at = "process"
        /\ \/ mRD' = HandedUp /\ ecet' = [ecet EXCEPT !.at = "empty"]
           \/ mRD' = mRD /\ NextInterrupt(ip.mInterruptResp)
    BY DEF ProcessInterrupt, Processing, ipVars, stackVars, queueVars, listVars, handVars, appVars
  <1>2. /\ ecet \in EcetFields /\ ip \in IPFields
    BY DEF BaseInv, TypeInv, EcetType, IPType
  <1>3. /\ ecet' \in EcetFields /\ ecet'.at \in {"process", "empty"} /\ ecet'.copy = ecet.copy
    <2>1. ip.mInterruptResp \in Responses BY <1>2 DEF IPFields
    <2>2. CASE NextInterrupt(ip.mInterruptResp) BY <1>2, <2>1, <2>2, Responding
    <2>3. CASE ecet' = [ecet EXCEPT !.at = "empty"] BY <1>2, <2>3 DEF EcetFields
    <2> QED BY <1>1, <2>2, <2>3
  <1>4. mRD' \in Messages(BufferSize)
    <2>1. /\ ip.mRecvBuffer \in Messages(BufferSize) /\ ip.mBufFillSize \in 0..BufferSize
          /\ ip.mBufFillSize <= Len(ip.mRecvBuffer)
      BY <1>2 DEF IPFields, BaseInv, CountInv
    <2>2. ip.mRecvBuffer \in Seq(1..MaxMsgs) /\ Len(ip.mRecvBuffer) <= BufferSize
      BY <2>1, Basics, MessageFacts
    <2>3. HandedUp \in Seq(1..MaxMsgs) /\ Len(HandedUp) = ip.mBufFillSize
      BY <2>1, <2>2, Basics, FrontFacts DEF HandedUp
    <2>4. Len(HandedUp) <= BufferSize BY <2>1, <2>3, Basics
    <2>5. HandedUp \in Messages(BufferSize) BY <2>3, <2>4, Basics, MessageFacts
    <2> QED BY <1>1, <2>5 DEF BaseInv, TypeInv, BlockType
  <1>5. TypeInv'
    <2>1. BlockType' BY <1>1, <1>4 DEF BaseInv, TypeInv, BlockType
    <2> QED BY <1>1, <1>3, <2>1, Frame DEF BaseInv, TypeInv, EcetType
  <1>6. LayerInv'
    BY <1>1 DEF BaseInv, LayerInv, Sockets
  <1>7. CountInv'
    BY <1>1, <1>3 DEF BaseInv, CountInv, InCallback, CalleeLives
  <1> QED BY <1>5, <1>6, <1>7 DEF BaseInv

\* EmptyBuffer keeps the basic invariant.
LEMMA EmptyBufferKeeps ==
  ASSUME BaseInv, EmptyBuffer
  PROVE  BaseInv'
  <1>1. /\ UNCHANGED <<service, m_poTopOfComStack, opened, m_apoInterruptQueue,
                       m_unComInterruptQueueCount, mConnectionsList, mConnectionListChanged,
                       anFDSetMaster, hand, events, net, mFBState, mRD, app, indicated, sent>>
        /\ ecet.at = "empty" /\ NextInterrupt(ProcessDataOk)
        /\ ip' = [ip EXCEPT !.mInterruptResp = ProcessDataOk, !.mBufFillSize = 0]
    BY DEF EmptyBuffer, FillAfterProcess, stackVars, queueVars, listVars, handVars, appVars
  <1>2. /\ ecet \in EcetFields /\ ip \in IPFields /\ hand \in HandFields
    BY DEF BaseInv, TypeInv, EcetType, IPType, HandType
  <1>3. /\ ecet' \in EcetFields /\ ecet'.at = "process" /\ ecet'.copy = ecet.copy
    BY <1>1, <1>2, Responding, Basics
  <1>4. /\ ip' \in IPFields /\ ip'.mSocketID = ip.mSocketID /\ ip'.mListeningID = ip.mListeningID
        /\ ip'.m_eConnectionState = ip.m_eConnectionState
        /\ ip'.mBufFillSize = 0 /\ ip'.mRecvBuffer = ip.mRecvBuffer
    <2>1. 0 \in 0..BufferSize /\ ProcessDataOk \in Responses BY Basics
    <2> QED BY <1>1, <1>2, <2>1 DEF IPFields
  <1>5. TypeInv'
    BY <1>1, <1>3, <1>4, Frame DEF BaseInv, TypeInv, EcetType, IPType
  <1>6. LayerInv'
    BY <1>1, <1>4, LayerFrame DEF BaseInv
  <1>7. CountInv'
    <2>1. /\ Len(ip.mRecvBuffer) \in Nat /\ ip.mBufFillSize \in 0..BufferSize /\ hand.n \in Nat
      BY <1>2, Basics, MessageFacts, LenProperties DEF IPFields, HandFields
    <2>2. 0 <= Len(ip.mRecvBuffer) BY <2>1
    <2>3. hand.at = "fill" /\ CalleeLives => 0 + hand.n <= Len(ip.mRecvBuffer)
      BY <2>1 DEF BaseInv, CountInv
    <2> QED BY <1>1, <1>3, <1>4, <2>2, <2>3 DEF BaseInv, CountInv, InCallback, CalleeLives
  <1> QED BY <1>5, <1>6, <1>7 DEF BaseInv

-----------------------------------------------------------------------------
(* The event chain thread, the application, the manager and the peers.     *)
\* ReadCount keeps the basic invariant: the count read is no less than the copy.
LEMMA ReadCountKeeps ==
  ASSUME BaseInv, ReadCount
  PROVE  BaseInv'
  <1>1. /\ UNCHANGED <<service, m_poTopOfComStack, opened, ip, m_apoInterruptQueue,
                       m_unComInterruptQueueCount, mConnectionsList, mConnectionListChanged,
                       anFDSetMaster, hand, events, net, mFBState, mRD, app, indicated, sent>>
        /\ ecet.at = "process"
        /\ ecet' = [ecet EXCEPT !.at = "count", !.n = m_unComInterruptQueueCount]
    BY DEF ReadCount, ipVars, stackVars, queueVars, listVars, handVars, appVars
  <1>2. ecet \in EcetFields /\ m_unComInterruptQueueCount \in 0..QueueSize
    BY DEF BaseInv, TypeInv, EcetType, QueueType
  <1>3. /\ ecet' \in EcetFields /\ ecet'.at = "count" /\ ecet'.copy = ecet.copy
        /\ ecet'.n = m_unComInterruptQueueCount
    BY <1>1, <1>2 DEF EcetFields
  <1>4. TypeInv'
    BY <1>1, <1>3, Frame DEF BaseInv, TypeInv, EcetType
  <1>5. LayerInv'
    BY <1>1 DEF BaseInv, LayerInv, Sockets
  <1>6. CountInv'
    BY <1>1, <1>2, <1>3, Basics DEF BaseInv, CountInv, InCallback, CalleeLives
  <1> QED BY <1>4, <1>5, <1>6 DEF BaseInv

\* WriteCount keeps the basic invariant: it lowers the count, and the queue moves up.
LEMMA WriteCountKeeps ==
  ASSUME BaseInv, WriteCount
  PROVE  BaseInv'
  <1>1. /\ UNCHANGED <<service, m_poTopOfComStack, opened, ip,
                       mConnectionsList, mConnectionListChanged,
                       anFDSetMaster, hand, events, net, mFBState, mRD, app, indicated, sent>>
        /\ ecet.at = "count"
        /\ m_unComInterruptQueueCount' = ecet.n - ecet.copy
        /\ ecet' = [Ecet("respond") EXCEPT !.ret = ecet.ret]
        /\ m_apoInterruptQueue' =
             [i \in 1..QueueSize |->
                IF i <= CountAfter /\ i + ecet.copy <= QueueSize
                  THEN m_apoInterruptQueue[i + ecet.copy] ELSE m_apoInterruptQueue[i]]
    BY DEF WriteCount, CountAfter, stackVars, listVars, handVars, appVars
  <1>2. /\ ecet \in EcetFields /\ hand \in HandFields
        /\ m_apoInterruptQueue \in [1..QueueSize -> 0..MaxOpen]
        /\ m_unComInterruptQueueCount \in 0..QueueSize
    BY DEF BaseInv, TypeInv, EcetType, QueueType, HandType
  <1>3. /\ ecet' \in EcetFields /\ ecet'.at = "respond"
    <2>1. Ecet("respond") \in EcetFields /\ Ecet("respond").at = "respond" BY Records
    <2> QED BY <1>1, <1>2, <2>1 DEF EcetFields
  <1>4. /\ ecet.copy \in Nat /\ ecet.n \in 0..QueueSize /\ ecet.copy <= ecet.n
        /\ ecet.n <= m_unComInterruptQueueCount
    BY <1>1, <1>2, Basics DEF EcetFields, BaseInv, CountInv
  <1>5. m_unComInterruptQueueCount' \in 0..QueueSize
        /\ m_unComInterruptQueueCount' <= m_unComInterruptQueueCount
    BY <1>1, <1>2, <1>4, Basics
  <1>6. m_apoInterruptQueue' \in [1..QueueSize -> 0..MaxOpen]
    <2>1. ASSUME NEW i \in 1..QueueSize, i + ecet.copy <= QueueSize
          PROVE  m_apoInterruptQueue[i + ecet.copy] \in 0..MaxOpen
      <3>1. i + ecet.copy \in 1..QueueSize BY <1>4, <2>1, Basics
      <3> QED BY <1>2, <3>1
    <2> QED BY <1>1, <1>2, <2>1
  <1>7. TypeInv'
    <2>1. QueueType' BY <1>5, <1>6 DEF QueueType
    <2> QED BY <1>1, <1>3, <2>1, Frame DEF BaseInv, TypeInv, EcetType
  <1>8. LayerInv'
    BY <1>1 DEF BaseInv, LayerInv, Sockets
  <1>9. CountInv'
    <2>1. hand.at = "count" => m_unComInterruptQueueCount' <= hand.n
      <3>1. hand.n \in Nat BY <1>2 DEF HandFields
      <3>2. hand.at = "count" => m_unComInterruptQueueCount <= hand.n BY DEF BaseInv, CountInv
      <3>3. m_unComInterruptQueueCount \in Nat /\ m_unComInterruptQueueCount' \in Nat
        BY <1>2, <1>5, Basics
      <3> QED BY <1>5, <3>1, <3>2, <3>3
    <2> QED BY <1>1, <1>3, <2>1 DEF BaseInv, CountInv, InCallback, CalleeLives
  <1> QED BY <1>7, <1>8, <1>9 DEF BaseInv

\* A step that closes the connection, or none, and changes nothing of the queue.
LEMMA ClosingKeeps ==
  ASSUME BaseInv, CloseConnection, EcetType', BlockType',
         UNCHANGED <<service, opened, anFDSetMaster, hand, sent, events, m_apoInterruptQueue,
                     m_unComInterruptQueueCount>>,
         ecet' = ecet \/ ecet'.at = "idle"
  PROVE  BaseInv'
  <1>1. /\ StackType' /\ IPType' /\ LayerInv' /\ SelectType'
        /\ net' \in NetFields /\ Len(net'.inbox) <= sent
        /\ InCallback /\ CalleeLives' => UNCHANGED <<m_poTopOfComStack, ip>>
        /\ ip'.mBufFillSize <= Len(ip'.mRecvBuffer)
    BY CloseFacts
  <1>2. TypeInv'
    <2>1. NetType' BY <1>1 DEF BaseInv, TypeInv, NetType
    <2> QED BY <1>1, <2>1, Frame DEF BaseInv, TypeInv
  <1>3. CountInv'
    <2>1. /\ hand.at = "fill" /\ CalleeLives' => ip'.mBufFillSize + hand.n <= Len(ip'.mRecvBuffer)
          /\ hand.at = "accept" /\ CalleeLives' => ip'.m_eConnectionState = "Listening"
      <3>1. InCallback /\ CalleeLives' => CalleeLives /\ ip' = ip BY <1>1 DEF CalleeLives
      <3> QED BY <3>1 DEF BaseInv, CountInv, InCallback
    <2> QED BY <1>1, <2>1 DEF BaseInv, CountInv, InCallback
  <1> QED BY <1>1, <1>2, <1>3 DEF BaseInv

\* ExternalEventDone keeps the basic invariant, whether it closes the connection or not.
LEMMA ExternalEventDoneKeeps ==
  ASSUME BaseInv, ExternalEventDone
  PROVE  BaseInv'
  <1>1. /\ UNCHANGED <<service, opened, m_apoInterruptQueue, m_unComInterruptQueueCount,
                       anFDSetMaster, hand, events, mFBState, mRD, sent>>
        /\ Respond(ecet.ret) /\ ecet' = Ecet("idle")
    BY DEF ExternalEventDone, queueVars, handVars
  <1>2. \/ CloseConnection
        \/ UNCHANGED <<m_poTopOfComStack, ip, mConnectionsList, mConnectionListChanged, net>>
    BY <1>1 DEF Respond, listVars
  <1>3. EcetType' /\ ecet'.at = "idle"
    BY <1>1, Records DEF EcetType
  <1>4. BlockType'
    <2>1. mRD \in Messages(BufferSize) /\ indicated \in Seq(Messages(BufferSize))
          /\ app \in {"free", "busy"}
      BY DEF BaseInv, TypeInv, BlockType
    <2>2. Append(indicated, mRD) \in Seq(Messages(BufferSize)) BY <2>1
    <2>3. indicated' \in Seq(Messages(BufferSize)) /\ app' \in {"free", "busy"}
      BY <1>1, <2>1, <2>2 DEF Respond
    <2> QED BY <1>1, <2>3 DEF BaseInv, TypeInv, BlockType
  <1>5. CASE CloseConnection
    BY <1>1, <1>3, <1>4, <1>5, ClosingKeeps
  <1>6. CASE UNCHANGED <<m_poTopOfComStack, ip, mConnectionsList, mConnectionListChanged, net>>
    <2>1. TypeInv' BY <1>1, <1>3, <1>4, <1>6, Frame DEF BaseInv, TypeInv
    <2>2. LayerInv' BY <1>1, <1>6 DEF BaseInv, LayerInv, Sockets
    <2>3. CountInv' BY <1>1, <1>3, <1>6 DEF BaseInv, CountInv, InCallback, CalleeLives
    <2> QED BY <2>1, <2>2, <2>3 DEF BaseInv
  <1> QED BY <1>2, <1>5, <1>6

\* InitOpens keeps the basic invariant: a new layer has one socket, in the list.
LEMMA InitOpensKeeps ==
  ASSUME BaseInv, InitOpens
  PROVE  BaseInv'
  <1>1. /\ UNCHANGED <<service, m_apoInterruptQueue, m_unComInterruptQueueCount,
                       anFDSetMaster, hand, events, net, mFBState, ecet, mRD, indicated, sent>>
        /\ m_poTopOfComStack = 0 /\ app' = "free"
        /\ opened < MaxOpen /\ opened' = opened + 1 /\ m_poTopOfComStack' = opened + 1
        /\ mConnectionListChanged' = TRUE
        /\ IF service = "Server"
           THEN /\ ip' = [NewLayer EXCEPT !.mListeningID = "listen", !.m_eConnectionState = "Listening"]
                /\ mConnectionsList' =
                     Append(mConnectionsList, [fd |-> "listen", layer |-> m_poTopOfComStack'])
           ELSE /\ ip' = [NewLayer EXCEPT !.mSocketID = "data", !.m_eConnectionState = "Connected"]
                /\ mConnectionsList' =
                     Append(mConnectionsList, [fd |-> "data", layer |-> m_poTopOfComStack'])
    BY DEF InitOpens, OpenConnection, AddComCallback, queueVars, handVars
  <1>2. mConnectionsList = <<>>
    BY <1>1, Basics DEF BaseInv, LayerInv, Listed
  <1>3. /\ ip' \in IPFields /\ ip'.mBufFillSize = 0 /\ ip'.mRecvBuffer = <<>>
        /\ IF service = "Server"
           THEN /\ ip'.mListeningID = "listen" /\ ip'.mSocketID = NoSocket
                /\ ip'.m_eConnectionState = "Listening"
           ELSE /\ ip'.mListeningID = NoSocket /\ ip'.mSocketID = "data"
                /\ ip'.m_eConnectionState = "Connected"
    <2>1. NewLayer \in IPFields /\ NewLayer.mBufFillSize = 0 /\ NewLayer.mRecvBuffer = <<>>
          /\ NewLayer.mListeningID = NoSocket /\ NewLayer.mSocketID = NoSocket
      BY Records
    <2>2. CASE service = "Server"
      <3>1. ip' = [NewLayer EXCEPT !.mListeningID = "listen", !.m_eConnectionState = "Listening"]
        BY <1>1, <2>2
      <3> QED BY <2>1, <2>2, <3>1 DEF IPFields
    <2>3. CASE service # "Server"
      <3>1. ip' = [NewLayer EXCEPT !.mSocketID = "data", !.m_eConnectionState = "Connected"]
        BY <1>1, <2>3
      <3> QED BY <2>1, <2>3, <3>1 DEF IPFields
    <2> QED BY <2>2, <2>3
  <1>4. mConnectionsList' = Listed(ip'.mListeningID, ip'.mSocketID, m_poTopOfComStack')
    <2> DEFINE L == [fd |-> "listen", layer |-> m_poTopOfComStack']
               D == [fd |-> "data", layer |-> m_poTopOfComStack']
    <2>1. Append(<<>>, L) = <<L>> /\ Append(<<>>, D) = <<D>>
      <3> HIDE DEF L, D
      <3> QED OBVIOUS
    <2>2. Listed("listen", NoSocket, m_poTopOfComStack') = <<L>>
          /\ Listed(NoSocket, "data", m_poTopOfComStack') = <<D>>
      BY Basics DEF Listed
    <2> QED BY <1>1, <1>2, <1>3, <2>1, <2>2
  <1>5. opened \in Nat /\ opened' \in 1..MaxOpen /\ m_poTopOfComStack' = opened'
    BY <1>1, Basics DEF BaseInv, TypeInv, StackType
  <1>6. TypeInv'
    <2>1. StackType' BY <1>1, <1>5 DEF BaseInv, TypeInv, StackType
    <2>2. SelectType' BY <1>1 DEF BaseInv, TypeInv, SelectType
    <2>3. BlockType' BY <1>1 DEF BaseInv, TypeInv, BlockType
    <2> QED BY <1>1, <1>3, <2>1, <2>2, <2>3, Frame DEF BaseInv, TypeInv, IPType
  <1>7. LayerInv'
    BY <1>1, <1>3, <1>4, <1>5, Basics DEF BaseInv, LayerInv
  <1>8. CountInv'
    <2>1. ~(InCallback /\ CalleeLives')
      <3>1. InCallback => hand.node.layer \in Nat /\ hand.node.layer <= opened
        BY Basics DEF BaseInv, CountInv, Node
      <3> QED BY <1>1, <1>5, <3>1 DEF CalleeLives
    <2>2. InCallback => hand.node \in Node /\ hand.node.layer <= opened'
      <3>1. InCallback => hand.node \in Node /\ hand.node.layer \in Nat /\ hand.node.layer <= opened
        BY Basics DEF BaseInv, CountInv, Node
      <3> QED BY <1>1, <1>5, <3>1
    <2>3. ip'.mBufFillSize <= Len(ip'.mRecvBuffer)
      BY <1>3, Basics
    <2> QED BY <1>1, <2>1, <2>2, <2>3 DEF BaseInv, CountInv, InCallback
  <1> QED BY <1>6, <1>7, <1>8 DEF BaseInv

\* InitCloses keeps the basic invariant.
LEMMA InitClosesKeeps ==
  ASSUME BaseInv, InitCloses
  PROVE  BaseInv'
  <1>1. /\ UNCHANGED <<service, opened, m_apoInterruptQueue, m_unComInterruptQueueCount,
                       anFDSetMaster, hand, events, mFBState, ecet, mRD, indicated, sent>>
        /\ CloseConnection /\ app' = "free"
    BY DEF InitCloses, queueVars, handVars
  <1>2. EcetType' /\ BlockType'
    BY <1>1 DEF BaseInv, TypeInv, EcetType, BlockType
  <1> QED BY <1>1, <1>2, ClosingKeeps

\* Kill keeps the basic invariant.
LEMMA KillKeeps ==
  ASSUME BaseInv, Kill
  PROVE  BaseInv'
  <1>1. /\ UNCHANGED <<service, opened, m_apoInterruptQueue, m_unComInterruptQueueCount,
                       anFDSetMaster, hand, events, ecet, mRD, indicated, sent>>
        /\ CloseConnection /\ app' = "free" /\ mFBState' = "KILLED"
    BY DEF Kill, queueVars, handVars
  <1>2. EcetType' /\ BlockType'
    BY <1>1 DEF BaseInv, TypeInv, EcetType, BlockType
  <1> QED BY <1>1, <1>2, ClosingKeeps

\* A step of the application, the manager or a peer that the layer has no part in.
LEMMA AsideKeeps ==
  ASSUME BaseInv, BlockType', NetType', net'.inbox = net.inbox \/ Len(net'.inbox) <= sent',
         sent <= sent',
         UNCHANGED <<service, m_poTopOfComStack, opened, ip, m_apoInterruptQueue,
                     m_unComInterruptQueueCount, mConnectionsList, mConnectionListChanged,
                     anFDSetMaster, hand, ecet>>
  PROVE  BaseInv'
  <1>1. TypeInv' BY Frame DEF BaseInv, TypeInv
  <1>2. LayerInv' BY DEF BaseInv, LayerInv, Sockets
  <1>3. Len(net'.inbox) <= sent'
    <2>1. Len(net.inbox) <= sent /\ Len(net.inbox) \in Nat /\ sent \in Nat /\ sent' \in Nat
      BY Basics, MessageFacts, LenProperties DEF BaseInv, TypeInv, NetType, NetFields, CountInv
    <2> QED BY <2>1
  <1>4. CountInv' BY <1>3 DEF BaseInv, CountInv, InCallback, CalleeLives
  <1> QED BY <1>1, <1>2, <1>4 DEF BaseInv

\* A send keeps the basic invariant, also one that fails and closes the data socket.
LEMMA SendKeeps ==
  ASSUME BaseInv, SendSucceeds \/ SendFails
  PROVE  BaseInv'
  <1>1. /\ UNCHANGED <<service, m_poTopOfComStack, opened, m_apoInterruptQueue,
                       m_unComInterruptQueueCount, anFDSetMaster, hand, events, mFBState, ecet,
                       mRD, indicated, sent>>
        /\ app' \in {"free", "busy"}
    BY DEF SendSucceeds, SendFails, AppAfterSend, ipVars, stackVars, queueVars, handVars
  <1>2. BlockType' BY <1>1 DEF BaseInv, TypeInv, BlockType
  <1>3. net \in NetFields /\ sent \in Nat /\ ip \in IPFields /\ hand \in HandFields
    BY Basics DEF BaseInv, TypeInv, NetType, IPType, HandType
  <1>4. ASSUME UNCHANGED <<ip, mConnectionsList, mConnectionListChanged>>,
               net' \in NetFields, net'.inbox = net.inbox
        PROVE  BaseInv'
    <2>1. NetType' BY <1>1, <1>4 DEF BaseInv, TypeInv, NetType
    <2> QED BY <1>1, <1>2, <1>3, <1>4, <2>1, AsideKeeps
  <1>5. CASE SendSucceeds
    <2>1. /\ UNCHANGED <<ip, mConnectionsList, mConnectionListChanged>>
          /\ net' = net \/ net' = [net EXCEPT !.asked = service = "Client"]
      BY <1>5 DEF SendSucceeds, ipVars, listVars
    <2>2. net' \in NetFields /\ net'.inbox = net.inbox
      BY <1>3, <2>1 DEF NetFields
    <2> QED BY <1>4, <2>1, <2>2
  <1>6. CASE SendFails
    <2>1. CASE service # "Server"
      <3>1. UNCHANGED <<ip, mConnectionsList, mConnectionListChanged, net>>
        BY <1>6, <2>1 DEF SendFails, listVars
      <3> QED BY <1>3, <1>4, <3>1
    <2>2. CASE service = "Server"
      <3>1. /\ ip' = [ip EXCEPT !.mSocketID = NoSocket, !.m_eConnectionState = "Listening"]
            /\ CloseDataSocket /\ ip.mSocketID # NoSocket
        BY <1>6, <2>2 DEF SendFails
      <3>2. /\ ip' \in IPFields /\ ip'.mSocketID = NoSocket /\ ip'.mListeningID = ip.mListeningID
            /\ ip'.m_eConnectionState = "Listening"
            /\ ip'.mBufFillSize = ip.mBufFillSize /\ ip'.mRecvBuffer = ip.mRecvBuffer
        BY <1>3, <3>1 DEF IPFields
      <3>3. m_poTopOfComStack # 0
        BY <3>1 DEF BaseInv, LayerInv
      <3>4. LayerInv' /\ SelectType' /\ net' \in NetFields /\ net'.inbox = <<>>
        BY <1>1, <2>2, <3>1, <3>2, <3>3, CloseDataFacts
      <3>5. TypeInv'
        <4>1. NetType' BY <1>1, <3>4 DEF BaseInv, TypeInv, NetType
        <4> QED BY <1>1, <1>2, <3>2, <3>4, <4>1, Frame DEF BaseInv, TypeInv, IPType
      <3>6. CountInv'
        <4>1. Len(net'.inbox) <= sent BY <1>3, <3>4, Basics
        <4> QED BY <1>1, <3>2, <4>1 DEF BaseInv, CountInv, InCallback, CalleeLives
      <3> QED BY <3>4, <3>5, <3>6 DEF BaseInv
    <2> QED BY <2>1, <2>2
  <1> QED BY <1>5, <1>6

\* Reset and Start keep the basic invariant.
LEMMA ManagerKeeps ==
  ASSUME BaseInv, Reset \/ Start
  PROVE  BaseInv'
  <1>1. /\ UNCHANGED <<service, m_poTopOfComStack, opened, ip, m_apoInterruptQueue,
                       m_unComInterruptQueueCount, mConnectionsList, mConnectionListChanged,
                       anFDSetMaster, hand, events, net, ecet, app, indicated, sent>>
        /\ mFBState' \in {"IDLE", "RUNNING"} /\ mRD' \in {mRD, <<>>}
    BY DEF Reset, Start, ipVars, stackVars, queueVars, listVars, handVars, appVars
  <1>2. BlockType' BY <1>1, Basics DEF BaseInv, TypeInv, BlockType
  <1>3. NetType' BY <1>1 DEF BaseInv, TypeInv, NetType
  <1>4. sent \in Nat BY Basics DEF BaseInv, TypeInv, NetType
  <1> QED BY <1>1, <1>2, <1>3, <1>4, AsideKeeps

\* The peers' steps keep the basic invariant.
LEMMA PeersKeep ==
  ASSUME BaseInv, Peers
  PROVE  BaseInv'
  <1>1. /\ UNCHANGED <<service, m_poTopOfComStack, opened, ip, m_apoInterruptQueue,
                       m_unComInterruptQueueCount, mConnectionsList, mConnectionListChanged,
                       anFDSetMaster, hand, events, ecet, mFBState, mRD, app, indicated>>
        /\ \/ sent' = sent /\ net' = [net EXCEPT !.backlog = 1]
           \/ sent' = sent /\ net' = [net EXCEPT !.closed = TRUE, !.asked = FALSE]
           \/ /\ sent < MaxMsgs /\ sent' = sent + 1
              /\ net' = [net EXCEPT !.inbox = Append(net.inbox, sent + 1),
                                    !.asked = service = "Server"]
    BY DEF Peers, PeerConnects, PeerSends, PeerCloses, ipVars, stackVars, queueVars, listVars,
           handVars, appVars
  <1>2. net \in NetFields /\ sent \in Nat /\ net.inbox \in Seq(1..MaxMsgs) /\ Len(net.inbox) <= sent
        /\ Len(net.inbox) \in Nat /\ sent <= MaxMsgs
    BY Basics, MessageFacts, LenProperties DEF BaseInv, TypeInv, NetType, NetFields, CountInv
  <1>3. BlockType' BY <1>1 DEF BaseInv, TypeInv, BlockType
  <1>4. CASE sent' = sent /\ net' = [net EXCEPT !.backlog = 1]
    <2>1. net' \in NetFields /\ net'.inbox = net.inbox BY <1>2, <1>4 DEF NetFields
    <2>2. NetType' BY <1>1, <1>4, <2>1 DEF BaseInv, TypeInv, NetType
    <2> QED BY <1>1, <1>2, <1>3, <1>4, <2>1, <2>2, AsideKeeps
  <1>5. CASE sent' = sent /\ net' = [net EXCEPT !.closed = TRUE, !.asked = FALSE]
    <2>1. net' \in NetFields /\ net'.inbox = net.inbox BY <1>2, <1>5 DEF NetFields
    <2>2. NetType' BY <1>1, <1>5, <2>1 DEF BaseInv, TypeInv, NetType
    <2> QED BY <1>1, <1>2, <1>3, <1>5, <2>1, <2>2, AsideKeeps
  <1>6. CASE /\ sent < MaxMsgs /\ sent' = sent + 1
             /\ net' = [net EXCEPT !.inbox = Append(net.inbox, sent + 1),
                                   !.asked = service = "Server"]
    <2> DEFINE longer == Append(net.inbox, sent + 1)
    <2>1. sent + 1 \in 1..MaxMsgs BY <1>2, <1>6, Basics
    <2>2. longer \in Seq(1..MaxMsgs) /\ Len(longer) = Len(net.inbox) + 1
      BY <1>2, <2>1, AppendProperties
    <2> HIDE DEF longer
    <2>3. Len(longer) <= sent' /\ Len(longer) <= MaxMsgs /\ sent <= sent'
      <3>1. MaxMsgs \in Nat BY Basics
      <3>2. Len(longer) <= sent + 1 /\ sent + 1 <= MaxMsgs BY <1>2, <1>6, <2>2, <3>1
      <3> QED BY <1>2, <1>6, <2>2, <3>1, <3>2
    <2>4. longer \in Messages(MaxMsgs) BY <2>2, <2>3, Basics, MessageFacts
    <2>5. net' \in NetFields /\ net'.inbox = longer
      BY <1>2, <1>6, <2>4 DEF NetFields, longer
    <2>6. NetType' BY <1>1, <1>2, <1>6, <2>1, <2>5, Basics DEF BaseInv, TypeInv, NetType
    <2> QED BY <1>1, <1>3, <2>3, <2>5, <2>6, AsideKeeps
  <1> QED BY <1>1, <1>4, <1>5, <1>6

-----------------------------------------------------------------------------
(* Type correctness and the list of call-backs.                            *)
\* The basic invariant holds at first.
LEMMA BaseInit ==
  ASSUME Init
  PROVE  BaseInv
  <1>1. /\ service \in {"Server", "Client", "Subscriber"} /\ m_poTopOfComStack = 0 /\ opened = 0
        /\ ip = NewLayer /\ m_apoInterruptQueue = [i \in 1..QueueSize |-> 0]
        /\ m_unComInterruptQueueCount = 0 /\ mConnectionsList = <<>>
        /\ mConnectionListChanged = FALSE /\ anFDSetMaster = {} /\ hand = HandlerAt("scan")
        /\ events = 0 /\ net = NoTraffic /\ mFBState = "RUNNING" /\ ecet = Ecet("idle")
        /\ mRD = <<>> /\ app = "free" /\ sent = 0 /\ indicated = <<>>
    BY DEF Init, IPInit
  <1>2. TypeInv
    <2>1. StackType BY <1>1, Basics DEF StackType
    <2>2. IPType BY <1>1, Records DEF IPType
    <2>3. QueueType BY <1>1, Basics DEF QueueType
    <2>4. SelectType BY <1>1 DEF SelectType
    <2>5. HandType BY <1>1, Records DEF HandType, HandPlaces
    <2>6. NetType BY <1>1, Basics DEF NetType
    <2>7. BlockType BY <1>1, Basics DEF BlockType
    <2>8. EcetType BY <1>1, Records DEF EcetType
    <2> QED BY <2>1, <2>2, <2>3, <2>4, <2>5, <2>6, <2>7, <2>8 DEF TypeInv
  <1>3. LayerInv
    <2>1. Sockets = {} /\ Listed(NoSocket, NoSocket, 0) = <<>>
      BY <1>1, Records, Basics DEF Sockets, Listed
    <2> QED BY <1>1, <2>1, Records, Basics DEF LayerInv
  <1>4. CountInv
    BY <1>1, Records, Basics DEF CountInv, InCallback
  <1> QED BY <1>2, <1>3, <1>4 DEF BaseInv

\* A step that changes nothing keeps the basic invariant.
LEMMA BaseStutter ==
  ASSUME BaseInv, UNCHANGED vars
  PROVE  BaseInv'
  <1>1. UNCHANGED <<service, m_poTopOfComStack, opened, ip, m_apoInterruptQueue,
                    m_unComInterruptQueueCount, mConnectionsList, mConnectionListChanged,
                    anFDSetMaster, hand, events, net, mFBState, ecet, mRD, app, indicated, sent>>
    BY DEF vars, ipVars, stackVars, queueVars, listVars, handVars, appVars
  <1>2. TypeInv' BY <1>1, Frame DEF BaseInv, TypeInv
  <1>3. LayerInv' BY <1>1 DEF BaseInv, LayerInv, Sockets
  <1>4. CountInv' BY <1>1 DEF BaseInv, CountInv, InCallback, CalleeLives
  <1> QED BY <1>2, <1>3, <1>4 DEF BaseInv

\* Every step keeps the basic invariant, whoever takes it.
LEMMA BaseStep ==
  ASSUME BaseInv, [Next]_vars
  PROVE  BaseInv'
  <1>1. CASE Handler
    <2>1. SelectThread BY <1>1 DEF Handler
    <2> QED BY <1>1, <2>1, ScanKeeps, SelectKeeps, NextCallbackKeeps, RecvDataKeeps, AcceptKeeps,
               RefuseKeeps, ReadDataKeeps, FillBufferKeeps, ReadNothingKeeps, InterruptEntryKeeps,
               InterruptCountKeeps, NotifyKeeps
            DEF SelectThread
  <1>2. CASE Receive
    BY <1>2, ExternalEventKeeps, ProcessInterruptKeeps, EmptyBufferKeeps, ReadCountKeeps,
       WriteCountKeeps, ExternalEventDoneKeeps DEF Receive
  <1>3. CASE Application
    BY <1>3, InitOpensKeeps, InitClosesKeeps, SendKeeps DEF Application
  <1>4. CASE Manager
    BY <1>4, KillKeeps, ManagerKeeps DEF Manager
  <1>5. CASE Peers
    BY <1>5, PeersKeep
  <1>6. CASE UNCHANGED vars
    BY <1>6, BaseStutter
  <1> QED BY <1>1, <1>2, <1>3, <1>4, <1>5, <1>6 DEF Next

\* The basic invariant always holds.
LEMMA BaseAlways == Spec => []BaseInv
  <1>1. Init => BaseInv BY BaseInit
  <1>2. BaseInv /\ [Next]_vars => BaseInv' BY BaseStep
  <1> QED BY <1>1, <1>2, PTL DEF Spec

\* Every variable keeps to its type: the interrupt queue's count stays inside the
\* queue and the fill count inside the receive buffer although interruptCommFB and
\* receiveData, and recvData and processInterrupt, write them without a lock between
\* the two threads; whatever peers, application and manager do.
THEOREM TypeCorrect == Spec => []TypeOK
  <1>1. BaseInv => TypeOK
    <2> SUFFICES ASSUME BaseInv PROVE TypeOK OBVIOUS
    <2>1. TypeInv /\ LayerInv BY DEF BaseInv
    <2>2. /\ service \in {"Server", "Client", "Subscriber"}
          /\ opened \in 0..MaxOpen /\ m_poTopOfComStack \in {0, opened}
          /\ m_apoInterruptQueue \in [1..QueueSize -> 0..MaxOpen]
          /\ m_unComInterruptQueueCount \in 0..QueueSize
          /\ mConnectionListChanged \in BOOLEAN
          /\ anFDSetMaster \subseteq {"data", "listen"}
          /\ events \in 0..ExtSize
          /\ mFBState \in {"IDLE", "RUNNING", "KILLED"}
          /\ mRD \in Messages(BufferSize)
          /\ app \in {"free", "busy"}
      BY <2>1 DEF TypeInv, StackType, QueueType, SelectType, NetType, BlockType
    <2>3. /\ ip.mSocketID \in {NoSocket, "data"} /\ ip.mListeningID \in {NoSocket, "listen"}
          /\ ip.m_eConnectionState \in {"Disconnected", "Listening", "Connected"}
          /\ ip.mInterruptResp \in Responses
          /\ ip.mRecvBuffer \in Messages(BufferSize) /\ ip.mBufFillSize \in 0..BufferSize
      BY <2>1 DEF TypeInv, IPType, IPFields
    <2>4. ecet.ret \in Responses /\ ecet.copy \in 0..QueueSize
      BY <2>1 DEF TypeInv, EcetType, EcetFields
    <2>5. net.backlog \in 0..1 /\ net.inbox \in Messages(MaxMsgs)
      BY <2>1 DEF TypeInv, NetType, NetFields
    <2>6. mConnectionsList \in UNION {[1..k -> Node] : k \in 0..2}
      <3>1. mConnectionsList = Listed(ip.mListeningID, ip.mSocketID, m_poTopOfComStack)
        BY <2>1 DEF LayerInv
      <3>2. CASE m_poTopOfComStack = 0
        <4>1. mConnectionsList = <<>>
          BY <2>1, <3>1, <3>2, Basics DEF LayerInv, Listed
        <4>2. <<>> \in [1..0 -> Node] /\ 0 \in 0..2 OBVIOUS
        <4> QED BY <4>1, <4>2
      <3>3. CASE m_poTopOfComStack # 0
        <4>1. m_poTopOfComStack \in 1..MaxOpen BY <2>2, <3>3, Basics
        <4> QED BY <2>3, <3>1, <4>1, ListedFacts
      <3> QED BY <3>2, <3>3
    <2> QED BY <2>2, <2>3, <2>4, <2>5, <2>6 DEF TypeOK
  <1> QED BY <1>1, BaseAlways, PTL

\* The select thread's list of call-backs holds the block's open sockets, each for the
\* layer that has it, its descriptor set is the list's or it has been told to look
\* again, and a server listens exactly while no client is connected, through every
\* addComCallback, removeComCallback, closeSocket and openConnection of both threads.
THEOREM CallbacksAlwaysAgree == Spec => []CallbacksAgree
  <1>1. BaseInv => CallbacksAgree
    <2> SUFFICES ASSUME BaseInv PROVE CallbacksAgree OBVIOUS
    <2>1. TypeInv /\ LayerInv BY DEF BaseInv
    <2>2. Descriptors(mConnectionsList) = Sockets BY <2>1, ClosedLists
    <2>3. \A j \in DOMAIN mConnectionsList : mConnectionsList[j].layer = m_poTopOfComStack
      <3>1. /\ ip.mListeningID \in {"listen", NoSocket} /\ ip.mSocketID \in {"data", NoSocket}
            /\ mConnectionsList = Listed(ip.mListeningID, ip.mSocketID, m_poTopOfComStack)
        BY <2>1 DEF TypeInv, IPType, IPFields, LayerInv
      <3>2. ASSUME NEW l \in {"listen", NoSocket}, NEW s \in {"data", NoSocket}, NEW t
            PROVE  \A j \in DOMAIN Listed(l, s, t) : Listed(l, s, t)[j].layer = t
        BY ListedFacts
      <3> QED BY <3>1, <3>2
    <2>4. ip.mSocketID \in {NoSocket, "data"} BY <2>1 DEF TypeInv, IPType, IPFields
    <2> QED BY <2>1, <2>2, <2>3, <2>4, Basics DEF LayerInv, CallbacksAgree
  <1> QED BY <1>1, BaseAlways, PTL
=============================================================================
