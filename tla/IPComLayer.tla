------------------------------ MODULE IPComLayer ------------------------------
(***************************************************************************)
(* The IP layer of a communication function block                          *)
(* (src/src/core/cominfra/ipcomlayer.cpp), the block's interrupt queue     *)
(* (basecommfb.cpp) and the select thread that calls the layer back when a *)
(* socket is readable (src/src/arch/fdselecthand.cpp).                     *)
(*                                                                         *)
(* A layer object is known by the number of the opening that created it; 0 *)
(* is the null pointer.  The layer fields are those of the object          *)
(* m_poTopOfComStack stands for, and are initial when there is none.  A    *)
(* block has at most two sockets: "listen" and "data", names a socket gets *)
(* again when it is reopened, as the lowest free descriptor is.            *)
(***************************************************************************)
EXTENDS Integers, SequencesExt

CONSTANTS MaxOpen,     \* bound: how often the block opens its connection
          QueueSize,   \* cg_unCommunicationInterruptQueueSize
          BufferSize,  \* cg_unIPLayerRecvBufferSize, in messages
          ExtSize      \* room for this block's events in the external list

VARIABLES
  service,             \* m_eCommServiceType: "Server", "Client", "Subscriber"
  m_poTopOfComStack, opened,
  ip,                  \* the fields of the layer object, see NewLayer
  m_apoInterruptQueue, m_unComInterruptQueueCount,
  mConnectionsList, mConnectionListChanged,
  anFDSetMaster, hand, \* the select thread's descriptor set and place
  events,              \* the block's external events in the ecet's list
  net                  \* what the peers have done, see NoTraffic

stackVars == <<service, m_poTopOfComStack, opened>>
queueVars == <<m_apoInterruptQueue, m_unComInterruptQueueCount>>
listVars  == <<mConnectionsList, mConnectionListChanged>>
handVars  == <<anFDSetMaster, hand>>

(* EComResponse, by its numbers: 16 is an INIT, 32 a data and 64 a         *)
(* negative response.                                                      *)
Nothing        == 0
ProcessDataOk  == 32
InitTerminated == 16 + 64 + 2

NoSocket == "none"
Node == [fd : {"listen", "data"}, layer : 1..MaxOpen]
BeginNode == [fd |-> "begin", layer |-> 0]
EndNode   == [fd |-> "end", layer |-> 0]

(* No attempt waits to be accepted; nothing sent to the data socket and    *)
(* not yet received; not closed by the peer; no answer outstanding.        *)
NoTraffic == [backlog |-> 0, inbox |-> <<>>, closed |-> FALSE, asked |-> FALSE]

NewLayer == [mSocketID |-> NoSocket, mListeningID |-> NoSocket,
             m_eConnectionState |-> "Disconnected", mInterruptResp |-> Nothing,
             mRecvBuffer |-> <<>>, mBufFillSize |-> 0]

HandlerAt(where) == [at |-> where, ready |-> {}, runner |-> EndNode,
                     node |-> EndNode, n |-> 0]

IPInit ==
  /\ service \in {"Server", "Client", "Subscriber"}
  /\ m_poTopOfComStack = 0
  /\ opened = 0
  /\ ip = NewLayer
  /\ m_apoInterruptQueue = [i \in 1..QueueSize |-> 0]
  /\ m_unComInterruptQueueCount = 0
  /\ mConnectionsList = <<>>
  /\ mConnectionListChanged = FALSE
  /\ anFDSetMaster = {}
  /\ hand = HandlerAt("scan")
  /\ events = 0
  /\ net = NoTraffic

-----------------------------------------------------------------------------
(* addComCallback and removeComCallback, each under mSync.                 *)
Descriptors(list) == {list[i].fd : i \in DOMAIN list}
\* A faulty AddComCallback, in no behaviour of the specification.
AddUnnoticed(fd, layer) ==
  /\ mConnectionsList' = Append(mConnectionsList, [fd |-> fd, layer |-> layer])
  /\ UNCHANGED mConnectionListChanged
AddComCallback(fd, layer) ==
  /\ mConnectionsList' = Append(mConnectionsList, [fd |-> fd, layer |-> layer])
  /\ mConnectionListChanged' = TRUE
\* A faulty WithoutCallback, in no behaviour of the specification.
KeepsCallback(list, fd) == list
WithoutCallback(list, fd) ==
  LET found == {i \in DOMAIN list : list[i].fd = fd} IN
  IF found = {} THEN list ELSE RemoveAt(list, Min(found))

\* A faulty RemoveComCallback, in no behaviour of the specification.
RemoveUnnoticed(fd) ==
  /\ mConnectionsList' = WithoutCallback(mConnectionsList, fd)
  /\ UNCHANGED mConnectionListChanged
RemoveComCallback(fd) ==
  /\ mConnectionsList' = WithoutCallback(mConnectionsList, fd)
  /\ mConnectionListChanged' = TRUE

Sockets == {ip.mSocketID, ip.mListeningID} \ {NoSocket}

(* closeSocket on the data socket alone: whatever the peer has sent and    *)
(* nobody has received is gone with it.                                    *)
CloseDataSocket ==
  /\ RemoveComCallback("data")
  /\ net' = [NoTraffic EXCEPT !.backlog = net.backlog]

(* closeConnection of the layer, socket after socket, and deletion of the  *)
(* stack.                                                                  *)
CloseConnection ==
  IF m_poTopOfComStack = 0
    THEN UNCHANGED <<m_poTopOfComStack, ip, listVars, net>>
    ELSE /\ m_poTopOfComStack' = 0
         /\ ip' = NewLayer
         /\ mConnectionsList' =
              WithoutCallback(WithoutCallback(mConnectionsList, ip.mSocketID),
                              ip.mListeningID)
         /\ mConnectionListChanged' = (mConnectionListChanged \/ Sockets # {})
         /\ net' = NoTraffic

(* openConnection, the socket opened and its callback registered.          *)
OpenConnection ==
  /\ opened < MaxOpen
  /\ opened' = opened + 1
  /\ m_poTopOfComStack' = opened + 1
  /\ IF service = "Server"
       THEN /\ ip' = [NewLayer EXCEPT !.mListeningID = "listen",
                                      !.m_eConnectionState = "Listening"]
            /\ AddComCallback("listen", opened + 1)
       ELSE /\ ip' = [NewLayer EXCEPT !.mSocketID = "data",
                                      !.m_eConnectionState = "Connected"]
            /\ AddComCallback("data", opened + 1)
  /\ UNCHANGED net

-----------------------------------------------------------------------------
(* The select thread.  run() copies the descriptor set ...                 *)
Scan ==
  /\ hand.at = "scan"
  /\ anFDSetMaster' = IF mConnectionListChanged
                        THEN Descriptors(mConnectionsList) ELSE anFDSetMaster
  /\ mConnectionListChanged' = FALSE
  /\ hand' = HandlerAt("select")
  /\ UNCHANGED <<stackVars, ip, queueVars, mConnectionsList, events, net>>

(* ... waits in select, which fails on a descriptor closed meanwhile ...   *)
Readable(fd) ==
  \/ fd = "listen" /\ net.backlog > 0
  \/ fd = "data" /\ (net.inbox # <<>> \/ net.closed)
Ready == IF anFDSetMaster \subseteq Sockets
           THEN {fd \in anFDSetMaster : Readable(fd)} ELSE {}

Select ==
  /\ hand.at = "select"
  /\ hand' = IF Ready = {} THEN HandlerAt("scan")
             ELSE [HandlerAt("pass") EXCEPT !.ready = Ready,
                                            !.runner = BeginNode]
  /\ UNCHANGED <<stackVars, ip, queueVars, listVars, anFDSetMaster, events,
                 net>>

(* ... and walks the list with the lock, up to the next ready descriptor,  *)
(* having stepped its iterator past it.  The lock is given up for the      *)
(* callback; an iterator on a node freed meanwhile has no defined step.    *)
Rest(runner) ==
  IF runner = EndNode THEN <<>>
  ELSE IF runner = BeginNode THEN mConnectionsList
  ELSE LET i == CHOOSE j \in DOMAIN mConnectionsList :
                  mConnectionsList[j] = runner
       IN SubSeq(mConnectionsList, i, Len(mConnectionsList))
IteratorValid ==
  hand.runner \in {BeginNode, EndNode} \cup ToSet(mConnectionsList)

NextCallback ==
  /\ hand.at = "pass"
  /\ IteratorValid
  /\ LET rest == Rest(hand.runner)
         hits == {i \in DOMAIN rest : rest[i].fd \in hand.ready}
     IN IF hits = {} THEN hand' = HandlerAt("scan")
        ELSE LET i == CHOOSE j \in hits : \A k \in hits : j <= k IN
             hand' = [hand EXCEPT !.at = "recv", !.node = rest[i],
                        !.runner = IF i < Len(rest) THEN rest[i + 1]
                                                    ELSE EndNode]
  /\ UNCHANGED <<stackVars, ip, queueVars, listVars, anFDSetMaster, events,
                 net>>

(* The callback runs on a layer object, which must still exist.            *)
InCallback == hand.at \in {"recv", "accept", "refuse", "read", "fill",
                           "interrupt", "count", "notify"}
CalleeLives == hand.node.layer = m_poTopOfComStack
Goto(where) == hand' = [hand EXCEPT !.at = where]

(* CIPComLayer::recvData up to its switch.                                 *)
RecvData ==
  /\ hand.at = "recv"
  /\ CalleeLives
  /\ ip' = [ip EXCEPT !.mInterruptResp = Nothing]
  /\ Goto(CASE ip.m_eConnectionState = "Listening" -> "accept"
            [] ip.m_eConnectionState = "Connected" /\ hand.node.fd = ip.mSocketID
                 -> "read"
            [] ip.m_eConnectionState = "Connected" /\ hand.node.fd = ip.mListeningID
                 -> "refuse"
            [] OTHER -> "notify")
  /\ UNCHANGED <<stackVars, queueVars, listVars, anFDSetMaster, events, net>>

(* The event chain thread looks at none of what this writes before it has  *)
(* an interrupt of the new connection.                                     *)
Accept ==
  /\ hand.at = "accept"
  /\ CalleeLives
  /\ net.backlog > 0
  /\ ip' = [ip EXCEPT !.mSocketID = "data", !.m_eConnectionState = "Connected"]
  /\ AddComCallback("data", hand.node.layer)
  /\ net' = [NoTraffic EXCEPT !.backlog = net.backlog - 1]
  /\ Goto("notify")
  /\ UNCHANGED <<stackVars, queueVars, anFDSetMaster, events>>

(* handleConnectionAttemptInConnected: accepted and closed at once.        *)
Refuse ==
  /\ hand.at = "refuse"
  /\ CalleeLives
  /\ net.backlog > 0
  /\ net' = [net EXCEPT !.backlog = @ - 1]
  /\ Goto("notify")
  /\ UNCHANGED <<stackVars, ip, queueVars, listVars, anFDSetMaster, events>>

(* handledConnectedDataRecv waits for room, then receives: a stream gives  *)
(* all it has, a datagram socket one datagram.  The bytes are in the       *)
(* buffer before the fill count says so.                                   *)
Room == BufferSize - ip.mBufFillSize
Least(a, b) == IF a < b THEN a ELSE b
ReadData ==
  /\ hand.at = "read"
  /\ CalleeLives
  /\ ip.mSocketID # NoSocket
  /\ Room > 0
  /\ net.inbox # <<>>
  /\ LET n == IF service = "Subscriber" THEN 1
              ELSE Least(Room, Len(net.inbox))
     IN /\ ip' = [ip EXCEPT !.mRecvBuffer = SubSeq(@, 1, ip.mBufFillSize)
                                              \o SubSeq(net.inbox, 1, n)]
        /\ net' = [net EXCEPT !.inbox = SubSeq(@, n + 1, Len(@))]
        /\ hand' = [hand EXCEPT !.at = "fill", !.n = n]
  /\ UNCHANGED <<stackVars, queueVars, listVars, anFDSetMaster, events>>

FillBuffer ==
  /\ hand.at = "fill"
  /\ CalleeLives
  /\ ip' = [ip EXCEPT !.mBufFillSize = @ + hand.n,
                      !.mInterruptResp = ProcessDataOk]
  /\ hand' = [hand EXCEPT !.at = "interrupt", !.n = 0]
  /\ UNCHANGED <<stackVars, queueVars, listVars, anFDSetMaster, events, net>>

(* Zero bytes: the peer has closed.  Only a server goes back to listening. *)
(* Nothing is read from a socket the block has closed meanwhile.           *)
StateAfterPeerClose ==
  IF service = "Server" THEN "Listening" ELSE ip.m_eConnectionState
ReadNothing ==
  /\ hand.at = "read"
  /\ CalleeLives
  /\ Room > 0
  /\ IF ip.mSocketID = NoSocket
       THEN /\ Goto("notify")
            /\ UNCHANGED <<ip, listVars, net>>
       ELSE /\ net.inbox = <<>> /\ net.closed
            /\ ip' = [ip EXCEPT !.mInterruptResp = InitTerminated,
                                !.mSocketID = NoSocket,
                                !.m_eConnectionState = StateAfterPeerClose]
            /\ CloseDataSocket
            /\ Goto("interrupt")
  /\ UNCHANGED <<stackVars, queueVars, anFDSetMaster, events>>

(* interruptCommFB: the entry at the count, then the count, which the      *)
(* event chain thread may change in between.                               *)
InterruptEntry ==
  /\ hand.at = "interrupt"
  /\ CalleeLives
  /\ IF m_unComInterruptQueueCount < QueueSize
       THEN /\ m_apoInterruptQueue' =
                 [m_apoInterruptQueue EXCEPT
                    ![m_unComInterruptQueueCount + 1] = hand.node.layer]
            /\ hand' = [hand EXCEPT !.at = "count",
                                    !.n = m_unComInterruptQueueCount]
       ELSE Goto("notify") /\ UNCHANGED m_apoInterruptQueue
  /\ UNCHANGED <<stackVars, ip, m_unComInterruptQueueCount, listVars,
                 anFDSetMaster, events, net>>

InterruptCount ==
  /\ hand.at = "count"
  /\ CalleeLives
  /\ m_unComInterruptQueueCount' = hand.n + 1
  /\ hand' = [hand EXCEPT !.at = "notify", !.n = 0]
  /\ UNCHANGED <<stackVars, ip, m_apoInterruptQueue, listVars, anFDSetMaster,
                 events, net>>

(* Back in run(): an event for the block unless the callback has nothing   *)
(* to say; a full external list drops it.                                  *)
\* A faulty EventsAfterNotify, in no behaviour of the specification.
EventForCloseOnly ==
  IF ip.mInterruptResp = InitTerminated /\ events < ExtSize THEN events + 1
                                                         ELSE events
EventsAfterNotify ==
  IF ip.mInterruptResp # Nothing /\ events < ExtSize THEN events + 1 ELSE events
Notify ==
  /\ hand.at = "notify"
  /\ CalleeLives
  /\ events' = EventsAfterNotify
  /\ hand' = [hand EXCEPT !.at = "pass", !.node = EndNode]
  /\ UNCHANGED <<stackVars, ip, queueVars, listVars, anFDSetMaster, net>>

SelectThread ==
  \/ Scan \/ Select \/ NextCallback \/ RecvData \/ Accept \/ Refuse
  \/ ReadData \/ FillBuffer \/ ReadNothing
  \/ InterruptEntry \/ InterruptCount \/ Notify
=============================================================================
