-------------------------------- MODULE CommFB --------------------------------
(***************************************************************************)
(* A communication function block (src/src/core/cominfra/commfb.cpp) with  *)
(* the layers "raw" over "ip": what its event chain thread does with the   *)
(* select thread of IPComLayer running beside it, the application behind   *)
(* the block's events and the peers behind its sockets.                    *)
(*                                                                         *)
(* Client and server exchange a request and its answer at a time.  Beyond  *)
(* that, Rough names who may act while the block is still busy with what   *)
(* happened before: "Peer" (attempts to connect, closes, messages), "Init" *)
(* (INIT with QI false) and "Kill".                                        *)
(***************************************************************************)
EXTENDS IPComLayer

CONSTANTS MaxMsgs,     \* bound: messages the peers send
          Rough        \* see above

ASSUME RoughAssumption == Rough \subseteq {"Peer", "Init", "Kill"}
ASSUME BoundAssumption ==
  /\ MaxMsgs \in Nat /\ MaxOpen \in Nat
  /\ QueueSize \in Nat \ {0} /\ BufferSize \in Nat \ {0} /\ ExtSize \in Nat \ {0}

VARIABLES
  mFBState,
  ecet,                \* the event chain thread's place in receiveData
  mRD,                 \* RD_1
  app,                 \* "busy": owes the RSP (server), awaits the CNF (client)
  sent,                \* history: how many messages the peers have sent
  indicated            \* history: RD_1 at each positive IND or CNF

ipVars  == <<stackVars, ip, queueVars, listVars, handVars>>
appVars == <<app, indicated>>
vars == <<ipVars, events, net, mFBState, ecet, mRD, appVars, sent>>

Ecet(where) == [at |-> where, copy |-> 0, i |-> 1, ret |-> Nothing, n |-> 0]

Init ==
  /\ IPInit
  /\ mFBState = "RUNNING"
  /\ ecet = Ecet("idle")
  /\ mRD = <<>>
  /\ app = "free"
  /\ sent = 0
  /\ indicated = <<>>

-----------------------------------------------------------------------------
(* The end of executeEvent after the external event.  resp & e_Terminated  *)
(* tests one bit, which InitTerminated has (and ProcessDataNoSocket, the   *)
(* answer to a server's RSP on a closed connection, to the same effect).   *)
(* A server keeps it to itself and listens again.                          *)
Terminated(resp) == (resp \div 2) % 2 = 1
Silent(resp) == Terminated(resp) /\ service = "Server"

Respond(resp) ==
  /\ IF Terminated(resp) /\ ~Silent(resp)
       THEN CloseConnection
       ELSE UNCHANGED <<m_poTopOfComStack, ip, listVars, net>>
  /\ indicated' = IF resp = ProcessDataOk THEN Append(indicated, mRD)
                                          ELSE indicated
  /\ app' = IF resp = Nothing \/ Silent(resp) THEN app
            ELSE IF service = "Server" THEN "busy" ELSE "free"

(* receiveInputEvent with the external event: only a running block reacts. *)
(* receiveData begins by copying the count.                                *)
ExternalEvent ==
  /\ ecet.at = "idle"
  /\ events > 0
  /\ events' = events - 1
  /\ ecet' = IF mFBState = "RUNNING"
               THEN [Ecet("process") EXCEPT !.copy = m_unComInterruptQueueCount]
               ELSE ecet
  /\ UNCHANGED <<ipVars, net, mFBState, mRD, appVars, sent>>

(* processInterrupt of the next queued layer, up to the raw layer's copy   *)
(* of the buffer to RD_1 ...                                               *)
Processing == ecet.at = "process" /\ ecet.i <= ecet.copy
HandedUp == SubSeq(ip.mRecvBuffer, 1, ip.mBufFillSize)
InterruptLives == m_apoInterruptQueue[ecet.i] = m_poTopOfComStack
Greater(a, b) == IF a > b THEN a ELSE b
NextInterrupt(resp) ==
  ecet' = [ecet EXCEPT !.at = "process", !.i = @ + 1, !.ret = Greater(@, resp)]

ProcessInterrupt ==
  /\ Processing
  /\ InterruptLives
  /\ IF /\ ip.mInterruptResp = ProcessDataOk
        /\ ip.m_eConnectionState = "Connected"
        /\ ip.mBufFillSize > 0
       THEN /\ mRD' = HandedUp
            /\ ecet' = [ecet EXCEPT !.at = "empty"]
       ELSE NextInterrupt(ip.mInterruptResp) /\ UNCHANGED mRD
  /\ UNCHANGED <<ipVars, events, net, mFBState, appVars, sent>>

(* ... and the reset of the buffer.                                        *)
\* A faulty FillAfterProcess, in no behaviour of the specification.
FillUntouched == ip.mBufFillSize
FillAfterProcess == 0
EmptyBuffer ==
  /\ ecet.at = "empty"
  /\ InterruptLives
  /\ ip' = [ip EXCEPT !.mInterruptResp = ProcessDataOk,
                      !.mBufFillSize = FillAfterProcess]
  /\ NextInterrupt(ProcessDataOk)
  /\ UNCHANGED <<stackVars, queueVars, listVars, handVars, events, net,
                 mFBState, mRD, appVars, sent>>

(* The count less the copy, read and written, and the queue moved up.      *)
ReadCount ==
  /\ ecet.at = "process" /\ ecet.i > ecet.copy
  /\ ecet' = [ecet EXCEPT !.at = "count", !.n = m_unComInterruptQueueCount]
  /\ UNCHANGED <<ipVars, events, net, mFBState, mRD, appVars, sent>>

\* A faulty CountAfter, in no behaviour of the specification.
CountKept == ecet.n
CountAfter == ecet.n - ecet.copy
WriteCount ==
  /\ ecet.at = "count"
  /\ m_unComInterruptQueueCount' = CountAfter
  /\ m_apoInterruptQueue' =
       [i \in 1..QueueSize |->
          IF i <= CountAfter /\ i + ecet.copy <= QueueSize
            THEN m_apoInterruptQueue[i + ecet.copy]
            ELSE m_apoInterruptQueue[i]]
  /\ ecet' = [Ecet("respond") EXCEPT !.ret = ecet.ret]
  /\ UNCHANGED <<stackVars, ip, listVars, handVars, events, net, mFBState,
                 mRD, appVars, sent>>

ExternalEventDone ==
  /\ ecet.at = "respond"
  /\ Respond(ecet.ret)
  /\ ecet' = Ecet("idle")
  /\ UNCHANGED <<service, opened, queueVars, handVars, events, mFBState, mRD,
                 sent>>

-----------------------------------------------------------------------------
(* The application's events.  INIT on an open connection, an INIT that     *)
(* fails, REQ with QI false and a client's REQ on a closed connection give *)
(* an answer and leave everything as it was.                               *)
MayExecute == ecet.at = "idle" /\ mFBState = "RUNNING"

InitOpens ==
  /\ MayExecute
  /\ m_poTopOfComStack = 0
  /\ OpenConnection
  /\ app' = "free"
  /\ UNCHANGED <<service, queueVars, handVars, events, mFBState, ecet, mRD,
                 indicated, sent>>

Quiet ==
  /\ hand.at \in {"scan", "select"}
  /\ ecet.at = "idle"
  /\ events = 0
  /\ net.inbox = <<>> /\ ~net.closed /\ net.backlog = 0
  /\ service = "Server" => app = "free" /\ ~net.asked
Waits(who) == who \in Rough \/ Quiet

InitCloses ==
  /\ MayExecute
  /\ Waits("Init")
  /\ m_poTopOfComStack # 0
  /\ CloseConnection
  /\ app' = "free"
  /\ UNCHANGED <<service, opened, queueVars, handVars, events, mFBState, ecet,
                 mRD, indicated, sent>>

(* RSP, and REQ of an open client, with QI true: the raw layer takes no    *)
(* notice of what the IP layer answers, and nothing is sent on a socket    *)
(* that is closed.                                                         *)
Sends ==
  /\ MayExecute
  /\ \/ service = "Server" /\ app = "busy"
     \/ service = "Client" /\ app = "free" /\ m_poTopOfComStack # 0
AppAfterSend == IF service = "Server" THEN "free" ELSE "busy"

SendSucceeds ==
  /\ Sends
  /\ app' = AppAfterSend
  /\ net' = IF ip.mSocketID = NoSocket THEN net
            ELSE [net EXCEPT !.asked = service = "Client"]
  /\ UNCHANGED <<ipVars, events, mFBState, ecet, mRD, indicated, sent>>

(* A send may fail for the server at any time (no memory in the stack),    *)
(* and does for a client whose peer has gone.                              *)
SendFails ==
  /\ Sends
  /\ ip.mSocketID # NoSocket
  /\ service = "Client" => net.closed
  /\ app' = AppAfterSend
  /\ IF service = "Server"
       THEN /\ ip' = [ip EXCEPT !.mSocketID = NoSocket,
                                !.m_eConnectionState = "Listening"]
            /\ CloseDataSocket
       ELSE UNCHANGED <<ip, listVars, net>>
  /\ UNCHANGED <<stackVars, queueVars, handVars, events, mFBState, ecet, mRD,
                 indicated, sent>>

-----------------------------------------------------------------------------
(* The manager kills, resets and starts the block.                         *)
Kill ==
  /\ mFBState = "RUNNING"
  /\ Waits("Kill")
  /\ mFBState' = "KILLED"
  /\ CloseConnection
  /\ app' = "free"
  /\ UNCHANGED <<service, opened, queueVars, handVars, events, ecet, mRD,
                 indicated, sent>>

Reset ==
  /\ mFBState = "KILLED"
  /\ mFBState' = "IDLE"
  /\ mRD' = <<>>
  /\ UNCHANGED <<ipVars, events, net, ecet, appVars, sent>>

Start ==
  /\ mFBState = "IDLE"
  /\ mFBState' = "RUNNING"
  /\ UNCHANGED <<ipVars, events, net, ecet, mRD, appVars, sent>>

-----------------------------------------------------------------------------
(* The peers: clients of a server, the server of a client, the publisher   *)
(* of a subscriber.                                                        *)
Attached == ip.mSocketID # NoSocket /\ ~net.closed

PeerConnects ==
  /\ service = "Server" /\ ip.mListeningID # NoSocket
  /\ net.backlog = 0
  /\ Waits("Peer")
  /\ net' = [net EXCEPT !.backlog = 1]
  /\ UNCHANGED <<ipVars, events, mFBState, ecet, mRD, appVars, sent>>

PeerSends ==
  /\ Attached
  /\ sent < MaxMsgs
  /\ CASE service = "Server" -> ~net.asked
       [] service = "Client" -> net.asked
       [] service = "Subscriber" -> Waits("Peer")
  /\ sent' = sent + 1
  /\ net' = [net EXCEPT !.inbox = Append(@, sent + 1),
                        !.asked = service = "Server"]
  /\ UNCHANGED <<ipVars, events, mFBState, ecet, mRD, appVars>>

(* A client closes when it has its answer.                                 *)
PeerCloses ==
  /\ Attached
  /\ service # "Subscriber"
  /\ \/ Waits("Peer")
     \/ service = "Server" /\ ~net.asked /\ net.backlog = 0
  /\ net' = [net EXCEPT !.closed = TRUE, !.asked = FALSE]
  /\ UNCHANGED <<ipVars, events, mFBState, ecet, mRD, appVars, sent>>

-----------------------------------------------------------------------------
Handler == SelectThread /\ UNCHANGED <<mFBState, ecet, mRD, appVars, sent>>
Receive == \/ ExternalEvent \/ ProcessInterrupt \/ EmptyBuffer
           \/ ReadCount \/ WriteCount \/ ExternalEventDone
Application == InitOpens \/ InitCloses \/ SendSucceeds \/ SendFails
Manager == Kill \/ Reset \/ Start
Peers == PeerConnects \/ PeerSends \/ PeerCloses

Next == Handler \/ Receive \/ Application \/ Manager \/ Peers

Spec == Init /\ [][Next]_vars

(* Both threads are scheduled, and an application answers a request.       *)
Answers == service = "Server" /\ (SendSucceeds \/ SendFails)
FairSpec == Spec /\ WF_vars(Handler) /\ WF_vars(Receive) /\ WF_vars(Answers)

-----------------------------------------------------------------------------
Responses == {Nothing, ProcessDataOk, InitTerminated}
Messages(n) == UNION {[1..k -> 1..MaxMsgs] : k \in 0..n}

TypeOK ==
  /\ service \in {"Server", "Client", "Subscriber"}
  /\ opened \in 0..MaxOpen /\ m_poTopOfComStack \in {0, opened}
  /\ ip.mSocketID \in {NoSocket, "data"} /\ ip.mListeningID \in {NoSocket, "listen"}
  /\ ip.m_eConnectionState \in {"Disconnected", "Listening", "Connected"}
  /\ ip.mInterruptResp \in Responses
  /\ ip.mRecvBuffer \in Messages(BufferSize) /\ ip.mBufFillSize \in 0..BufferSize
  /\ m_apoInterruptQueue \in [1..QueueSize -> 0..MaxOpen]
  /\ m_unComInterruptQueueCount \in 0..QueueSize
  /\ mConnectionsList \in UNION {[1..k -> Node] : k \in 0..2}
  /\ mConnectionListChanged \in BOOLEAN
  /\ anFDSetMaster \subseteq {"data", "listen"}
  /\ events \in 0..ExtSize
  /\ mFBState \in {"IDLE", "RUNNING", "KILLED"}
  /\ ecet.ret \in Responses /\ ecet.copy \in 0..QueueSize
  /\ mRD \in Messages(BufferSize)
  /\ app \in {"free", "busy"}
  /\ net.backlog \in 0..1 /\ net.inbox \in Messages(MaxMsgs)

(* Every message the peers have sent is indicated once, alone and in       *)
(* order: receiveData neither repeats nor joins nor skips one.             *)
IndicatedOnce ==
  \A k \in DOMAIN indicated : indicated[k] = <<k>>

(* Received data that nobody is handling has an interrupt in the queue, an *)
(* external event on its way and a response that says it is there, as      *)
(* CComCallback::recvData promises.                                        *)
ReceivedIsHandled ==
  ip.mBufFillSize > 0 /\ ~InCallback /\ ecet.at = "idle"
    => /\ events > 0
       /\ m_unComInterruptQueueCount > 0
       /\ ip.mInterruptResp = ProcessDataOk

(* Neither thread ever enters a layer that was deleted, and the select     *)
(* thread's iterator never stands on a freed node.                         *)
NoDeadLayer ==
  /\ InCallback => CalleeLives
  /\ Processing \/ ecet.at = "empty" => InterruptLives
  /\ hand.at = "pass" => IteratorValid

(* After closeConnection the connection can be opened again: what          *)
(* receiveData finds in the interrupt queue is the layer now open.         *)
ReopenIsSafe ==
  Processing /\ m_poTopOfComStack # 0 => InterruptLives

(* The select thread watches the block's open sockets, each for the layer  *)
(* that has it, or has been told to look again.  An open server listens    *)
(* exactly when no client is connected to it, whichever thread notices     *)
(* that the connection has ended: recvData in the select thread or         *)
(* sendData in the event chain thread.                                     *)
CallbacksAgree ==
  /\ Descriptors(mConnectionsList) = Sockets
  /\ \A j \in DOMAIN mConnectionsList :
       mConnectionsList[j].layer = m_poTopOfComStack
  /\ mConnectionListChanged
       \/ anFDSetMaster = Descriptors(mConnectionsList)
  /\ service = "Server" /\ m_poTopOfComStack # 0 =>
       (ip.m_eConnectionState = "Listening" <=> ip.mSocketID = NoSocket)

(* Every attempt to connect is accepted or refused; every request a client *)
(* makes of a server is answered, or the client's connection is closed;    *)
(* every message sent reaches the application as an IND or CNF with its    *)
(* data: call-back, receive buffer, interrupt queue, external event and    *)
(* indication follow one another.                                          *)
PeersServed ==
  /\ net.backlog > 0 ~> net.backlog = 0
  /\ (service = "Server" /\ net.asked) ~> ~net.asked
  /\ \A k \in 1..MaxMsgs : sent = k ~> Len(indicated) >= k
=============================================================================
