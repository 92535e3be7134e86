-------------------------- MODULE EventConnections --------------------------
(***************************************************************************)
(* The event side of a resource's wiring: event connections (conn.cpp,     *)
(* eventconn.cpp) and adapter connections (adapter.cpp, adapterconn.cpp),  *)
(* changed by the manager while the resource's thread sends and delivers   *)
(* events.  The event list holds pointers into the wiring: to a node of a  *)
(* connection's destination list, or to the entry an adapter has for the   *)
(* events its block gets.                                                  *)
(*                                                                         *)
(* An event connection is named after its output, an adapter connection    *)
(* after its plug.  The manager deletes no block still connected (what     *)
(* happens otherwise is in Connections); nothing keeps him from taking     *)
(* away what an event is just passing.  ANY adapters are left out.         *)
(***************************************************************************)
EXTENDS Naturals, Sequences, SequencesExt

CONSTANTS
  FB, Output, Input, Plug, Socket,
  Owner,        \* the block of each port and adapter
  Type,         \* the type of each adapter
  EventSource,  \* the blocks external events start at
  QueueSize,    \* events the event list has room for
  Rough,        \* whether the manager also connects adapters twice
  None,         \* the null pointer
  Freed         \* a pointer that must not be followed any more

Adapter == Plug \cup Socket

ASSUME WiringAssumption ==
  /\ Output \cap Input = {} /\ Plug \cap Socket = {}
  /\ Adapter \cap (Output \cup Input) = {}
  /\ Owner \in [Output \cup Input \cup Adapter -> FB] /\ DOMAIN Type = Adapter
  /\ EventSource \subseteq FB /\ QueueSize \in Nat \ {0}
  /\ Rough \subseteq {"second"}
  /\ {None, Freed} \cap (FB \cup Adapter) = {} /\ None # Freed
  /\ {None, Freed} \cap ((Output \X Input) \cup (Adapter \X Adapter)) = {}

VARIABLES
  exists,           \* the blocks there are
  running,          \* those in the state RUNNING
  mDestinationIds,  \* of each event connection: its inputs, in order
  peer,             \* m_poPeer of each adapter
  conn,             \* m_poAdapterConn of each socket
  dest,             \* mDestinationIds of each adapter connection
  sock,             \* mSocket of each adapter connection
  mEventList,       \* the entries pointed to
  full,             \* mEventListEnd has come to stand on a filled slot
  at,               \* the block the thread is in, or None
  it,               \* where triggerEvent or executeEvent is, or None
  owed              \* the inputs the walk of triggerEvent is still to serve

adapterVars == <<peer, conn, dest, sock>>
threadVars == <<mEventList, full, at, it, owed>>
vars == <<exists, running, mDestinationIds, adapterVars, threadVars>>

\* Entries: the node of input i in the connection e, and that of adapter a.
Node == Output \X Input
Own == {<<a, a>> : a \in Adapter}

TypeOK ==
  /\ exists \subseteq FB /\ running \subseteq exists
  /\ mDestinationIds \in [Output -> Seq(Input)]
  /\ peer \in [Adapter -> Adapter \cup {None}]
  /\ conn \in [Socket -> Plug \cup {None}]
  /\ dest \in [Plug -> Socket \cup {None}] /\ sock \in [Plug -> Socket \cup {None}]
  /\ mEventList \in Seq(Node \cup Own \cup {Freed}) /\ Len(mEventList) <= QueueSize
  /\ full \in BOOLEAN
  /\ at \in FB \cup {None, Freed}
  /\ it \in Node \cup (Adapter \X Adapter) \cup {None, Freed}
  /\ owed \subseteq Input

Init ==
  /\ exists = {} /\ running = {}
  /\ mDestinationIds = [e \in Output |-> <<>>]
  /\ peer = [a \in Adapter |-> None] /\ conn = [s \in Socket |-> None]
  /\ dest = [p \in Plug |-> None] /\ sock = [p \in Plug |-> None]
  /\ mEventList = <<>> /\ full = FALSE /\ at = None /\ it = None /\ owed = {}

Exists(x) == Owner[x] \in exists

\* The memory of these entries is given back, whoever points to it.
Free(entries) ==
  /\ mEventList' = [k \in DOMAIN mEventList |->
                      IF mEventList[k] \in entries THEN Freed ELSE mEventList[k]]
  /\ it' = IF it \in entries THEN Freed ELSE it

-----------------------------------------------------------------------------
(* Event connections: connect and disconnect                               *)

Destinations(e) == Range(mDestinationIds[e])

PlaceIn(s, i) == CHOOSE k \in DOMAIN s : s[k] = i

ConnectEvent(e, i) ==
  /\ Exists(e) /\ Exists(i)
  /\ i \notin Destinations(e)
  /\ mDestinationIds' = [mDestinationIds EXCEPT ![e] = Append(@, i)]
  /\ UNCHANGED <<exists, running, adapterVars, threadVars>>

Removed(s, i) == RemoveAt(s, PlaceIn(s, i))

DisconnectEvent(e, i) ==
  /\ Exists(e) /\ Exists(i)
  /\ i \in Destinations(e)
  /\ mDestinationIds' = [mDestinationIds EXCEPT ![e] = Removed(@, i)]
  /\ Free({<<e, i>>})
  /\ owed' = IF it # None /\ it # Freed /\ it[1] = e THEN owed \ {i} ELSE owed
  /\ UNCHANGED <<exists, running, adapterVars, full, at>>

-----------------------------------------------------------------------------
(* Adapter connections: connect and disconnect                             *)

Compatible(p, s) == Type[p] = Type[s]

\* CAdapter::disconnect of a socket gives its connection up, too.
\* A faulty GivenUp, in no behaviour of the specification.
StillHeld(sockets) == conn
GivenUp(sockets) == [s \in Socket |-> IF s \in sockets THEN None ELSE conn[s]]

\* The refused connection takes both adapters back without a look at whose
\* peers they are; a plug without a connection has no peer.
Established(p, s) == peer[p] = None /\ peer[s] = None

ConnectAdapter(p, s) ==
  /\ Exists(p) /\ Exists(s) /\ Compatible(p, s)
  /\ dest[p] = None
  /\ \/ /\ Established(p, s)
        /\ peer' = [peer EXCEPT ![p] = s, ![s] = p]
        /\ conn' = [conn EXCEPT ![s] = p]
        /\ sock' = [sock EXCEPT ![p] = s]
        /\ dest' = [dest EXCEPT ![p] = s]
     \/ /\ ~Established(p, s)
        /\ "second" \in Rough
        /\ peer' = [peer EXCEPT ![p] = None, ![s] = None]
        /\ conn' = GivenUp({s})
        /\ UNCHANGED <<sock, dest>>
  /\ UNCHANGED <<exists, running, mDestinationIds, threadVars>>

\* performDisconnect: CAdapter::disconnect of the plug, and of the socket if
\* it is this connection's.
OwnSocket(p) == {s \in Socket : sock[p] = s /\ conn[s] = p}

\* A faulty Unpeered, in no behaviour of the specification.
PlugKept(p) == OwnSocket(p)
Unpeered(p) == {p} \cup OwnSocket(p)

PerformDisconnect(plugs) ==
  LET sockets == UNION {OwnSocket(p) : p \in plugs}
      unpeered == UNION {Unpeered(p) : p \in plugs}
  IN /\ peer' = [a \in Adapter |-> IF a \in unpeered THEN None ELSE peer[a]]
     /\ conn' = GivenUp(sockets)
     /\ sock' = [p \in Plug |-> IF p \in plugs THEN None ELSE sock[p]]

DisconnectAdapter(p, s) ==
  /\ Exists(p) /\ Exists(s)
  /\ dest[p] = s
  /\ PerformDisconnect({p})
  /\ dest' = [dest EXCEPT ![p] = None]
  /\ UNCHANGED <<exists, running, mDestinationIds, threadVars>>

-----------------------------------------------------------------------------
(* Blocks: createFB, deleteFB, changeFBExecutionState                      *)

CreateFB(f) ==
  /\ f \notin exists
  /\ exists' = exists \cup {f}
  /\ UNCHANGED <<running, mDestinationIds, adapterVars, threadVars>>

Connected(f) ==
  \/ \E e \in Output : \E i \in Destinations(e) : f \in {Owner[e], Owner[i]}
  \/ \E p \in Plug : dest[p] # None /\ f \in {Owner[p], Owner[dest[p]]}

EntriesOf(f) ==
  {n \in Node \cup (Adapter \X Adapter) : f \in {Owner[n[1]], Owner[n[2]]}}

\* The plugs of the block delete their adapter connections, which disconnects
\* them; its sockets have none.
DeleteFB(f) ==
  /\ f \in exists \ running
  /\ ~Connected(f)
  /\ exists' = exists \ {f}
  /\ PerformDisconnect({p \in Plug : Owner[p] = f})
  /\ Free(EntriesOf(f))
  /\ at' = IF at = f THEN Freed ELSE at
  /\ UNCHANGED <<running, mDestinationIds, dest, full, owed>>

ChangeFBExecutionState(f) ==
  /\ f \in exists
  /\ running' = IF f \in running THEN running \ {f} ELSE running \cup {f}
  /\ UNCHANGED <<exists, mDestinationIds, adapterVars, threadVars>>

-----------------------------------------------------------------------------
(* The resource's thread                                                   *)

wiringVars == <<exists, running, mDestinationIds, adapterVars>>

\* A faulty HasRoom, in no behaviour of the specification.
HasRoomForOneMore == Len(mEventList) <= QueueSize

\* Once the last slot has been filled mEventListEnd stays on it.
HasRoom == ~full

\* addEventEntry: an entry the list has no room for is lost.
AddEventEntry(n) ==
  /\ mEventList' = IF HasRoom THEN Append(mEventList, n) ELSE mEventList
  /\ full' = (full \/ Len(mEventList) + 1 = QueueSize)

\* When mEventListStart comes to the slot mEventListEnd stands on, the list is
\* taken for empty, the entry there or not.
TakenForEmpty == Len(mEventList) <= (IF full THEN 1 ELSE 0)

\* transferExternalEvents and mainRun: the external event goes through the list.
StartEventChain(f) ==
  /\ at = None /\ HasRoom
  /\ f \in EventSource \cap running
  /\ at' = f
  /\ UNCHANGED <<wiringVars, mEventList, full, it, owed>>

\* mainRun: a block that is not RUNNING ignores its event.
ReceiveInputEvent ==
  /\ at = None /\ ~TakenForEmpty /\ Head(mEventList) # Freed
  /\ LET block == Owner[Head(mEventList)[2]]
     IN at' = IF block \in running THEN block ELSE None
  /\ mEventList' = Tail(mEventList)
  /\ UNCHANGED <<wiringVars, full, it, owed>>

Place(n) == PlaceIn(mDestinationIds[n[1]], n[2])

\* A faulty HasNext, in no behaviour of the specification.
HasNextTwo(n) == Place(n) + 1 < Len(mDestinationIds[n[1]])
HasNext(n) == Place(n) < Len(mDestinationIds[n[1]])

Successor(n) ==
  IF HasNext(n) THEN <<n[1], mDestinationIds[n[1]][Place(n) + 1]>> ELSE None

TriggerEvent(e) ==
  /\ at = Owner[e] /\ it = None
  /\ mDestinationIds[e] # <<>>
  /\ it' = <<e, Head(mDestinationIds[e])>>
  /\ owed' = Destinations(e)
  /\ UNCHANGED <<wiringVars, mEventList, full, at>>

TriggerNext ==
  /\ it \in Node
  /\ AddEventEntry(it)
  /\ it' = Successor(it)
  /\ owed' = owed \ {it[2]}
  /\ UNCHANGED <<wiringVars, at>>

\* sendAdapterEvent: executeEvent looks at the peer ...
SendAdapterEvent(a) ==
  /\ at = Owner[a] /\ it = None
  /\ Owner[a] \in running
  /\ peer[a] # None
  /\ it' = <<a, peer[a]>>
  /\ UNCHANGED <<wiringVars, mEventList, full, at, owed>>

\* ... and reads it again to queue the entry.
QueueAdapterEvent ==
  /\ it \in Adapter \X Adapter
  /\ IF peer[it[1]] = None
       THEN it' = Freed /\ UNCHANGED <<mEventList, full>>
       ELSE it' = None /\ AddEventEntry(<<peer[it[1]], peer[it[1]]>>)
  /\ UNCHANGED <<wiringVars, at, owed>>

Return ==
  /\ at \in FB /\ it = None
  /\ at' = None
  /\ UNCHANGED <<wiringVars, mEventList, full, it, owed>>

Thread ==
  \/ \E f \in FB : StartEventChain(f)
  \/ ReceiveInputEvent \/ TriggerNext \/ QueueAdapterEvent \/ Return
  \/ \E e \in Output : TriggerEvent(e)
  \/ \E a \in Adapter : SendAdapterEvent(a)

Manager ==
  \/ \E e \in Output, i \in Input : ConnectEvent(e, i) \/ DisconnectEvent(e, i)
  \/ \E p \in Plug, s \in Socket : ConnectAdapter(p, s) \/ DisconnectAdapter(p, s)
  \/ \E f \in FB : CreateFB(f) \/ DeleteFB(f) \/ ChangeFBExecutionState(f)

Next == Thread \/ Manager

Spec == Init /\ [][Next]_vars

-----------------------------------------------------------------------------
(* A socket that has a connection has it with both ends: the plug the      *)
(* connection belongs to, the connection's socket and its destination are  *)
(* the same pair, and a socket without one has no peer.  So an event of    *)
(* the socket's block reaches the plug it is connected to and no other.    *)
SocketBacked ==
  \A s \in Socket :
    /\ conn[s] = None <=> peer[s] = None
    /\ \A p \in Plug : conn[s] = p =>
         dest[p] = s /\ sock[p] = s /\ peer[p] = s /\ peer[s] = p

(* A connection that was answered with e_RDY and not taken back since is   *)
(* there, at both adapters.                                                *)
ConnectedBothWays ==
  \A p \in Plug : \A s \in Socket : dest[p] = s =>
    peer[p] = s /\ sock[p] = s /\ peer[s] = p /\ conn[s] = p

(* No plug, socket or adapter connection refers to a block that is gone.   *)
NoDanglingPeer ==
  /\ \A a \in Adapter : Exists(a) /\ peer[a] # None => Exists(peer[a])
  /\ \A p \in Plug : Exists(p) /\ sock[p] # None => Exists(sock[p])
  /\ \A s \in Socket : Exists(s) /\ conn[s] # None => Exists(conn[s])

(* A walk of triggerEvent that comes to its end has passed the event to    *)
(* every destination the connection had from its beginning on, however     *)
(* destinations before and behind its place came and went.  A walk whose   *)
(* own node was taken away comes to no end.                                *)
DestinationsServed ==
  it = None => owed = {}
=============================================================================
