---------------------------- MODULE Connections ----------------------------
(***************************************************************************)
(* The data connections of a resource and the function blocks they join:   *)
(* src/src/core/conn.cpp, dataconn.cpp, the port side of funcbloc.cpp, and *)
(* the creation and deletion of blocks in fbcontainer.cpp.                 *)
(*                                                                         *)
(* A connection is stored at its source, the data output it is named after *)
(* here, as a list of destinations; every destination keeps a pointer back *)
(* (m_apoDIConns).  Connect and delete commands reach the code one at a    *)
(* time from the manager, who knows only the responses it gets; answered   *)
(* is what it believes.                                                    *)
(***************************************************************************)
EXTENDS Naturals, Sequences, FiniteSets, SequencesExt

CONSTANTS FB,            \* names of function blocks
          Source,        \* data outputs, each with its CDataConnection
          Input,         \* data inputs
          NoConnection,  \* the null pointer
          Owner,         \* the block a data output or input belongs to
          Declared,      \* its data type in the block's interface
          SingleSource,  \* the manager gives no input a second source
          DisconnectFirst \* the manager deletes no block still connected

\* Types of the IEC library enough to tell the conversions apart.
DataTypes == {"REAL", "LREAL", "INT", "STRING"}

ASSUME ConnectionAssumption ==
  /\ Source \cap Input = {} /\ NoConnection \notin Source
  /\ Owner \in [Source \cup Input -> FB]
  /\ Declared \in [Source \cup Input -> DataTypes \cup {"ANY"}]
  /\ {SingleSource, DisconnectFirst} \subseteq BOOLEAN

VARIABLES
  mFBState,         \* of each block, "none" while it does not exist
  mDestinationIds,  \* of each connection: its destinations, in order
  mValueType,       \* of each connection: type of m_poValue, "ANY" if null
  mSpecialCast,     \* of each connection: mSpecialCastConnection
  mDIConn,          \* of each input: m_apoDIConns
  mDIType,          \* of each input: its current type
  answered          \* the connections that exist by the responses given

vars == <<mFBState, mDestinationIds, mValueType, mSpecialCast, mDIConn,
          mDIType, answered>>
portVars == <<mDestinationIds, mValueType, mSpecialCast, mDIConn, mDIType,
              answered>>

Destinations(s) == Range(mDestinationIds[s])

TypeOK ==
  /\ mFBState \in [FB -> {"none", "RUNNING", "IDLE", "STOPPED", "KILLED"}]
  /\ mDestinationIds \in [Source -> Seq(Input)]
  /\ \A s \in Source : IsInjective(mDestinationIds[s])
  /\ mValueType \in [Source -> DataTypes \cup {"ANY"}]
  /\ mSpecialCast \in [Source -> BOOLEAN]
  /\ mDIConn \in [Input -> Source \cup {NoConnection}]
  /\ mDIType \in [Input -> DataTypes \cup {"ANY"}]
  /\ answered \subseteq Source \X Input

Init ==
  /\ mFBState = [f \in FB |-> "none"]
  /\ mDestinationIds = [s \in Source |-> <<>>]
  /\ mValueType = [s \in Source |-> Declared[s]]
  /\ mSpecialCast = [s \in Source |-> FALSE]
  /\ mDIConn = [i \in Input |-> NoConnection]
  /\ mDIType = [i \in Input |-> Declared[i]]
  /\ answered = {}

-----------------------------------------------------------------------------
Reals == {"REAL", "LREAL"}

(* CIEC_ANY::isCastable for two different types of DataTypes.              *)
IsCastable(src, dst) ==
  \/ src \in Reals /\ dst \in Reals \cup {"INT"}
  \/ src = "INT" /\ dst \in Reals

CanBeConnected(src, dst) ==
  src = dst \/ src = "ANY" \/ dst = "ANY" \/ IsCastable(src, dst)

(* What canBeConnected leaves in mSpecialCastConnection, a reference       *)
(* argument: it is written only for two different types that are not ANY.  *)
SpecialCastAfter(src, dst, before) ==
  IF src = dst \/ "ANY" \in {src, dst}
    THEN before
    ELSE IsCastable(src, dst) /\ src \in Reals

(* configureGenericDI: an ANY input takes the type of the connection.      *)
Configured(type, value) == IF type = "ANY" THEN value ELSE type

(* handleAnySrcPortConnection: the connection of an ANY output takes the   *)
(* type of the first typed input, and so do the inputs it already has.     *)
ValueAfter(s, i) == Configured(mValueType[s], mDIType[i])
\* A faulty DestinationsConfigured, in no behaviour of the specification.
DestinationsUntouched(s, i) == mDIType
DestinationsConfigured(s, i) ==
  IF mValueType[s] # "ANY" THEN mDIType
  ELSE [d \in Input |->
          IF d \in Destinations(s) /\ mDIConn[d] \in {s, NoConnection}
            THEN Configured(mDIType[d], ValueAfter(s, i)) ELSE mDIType[d]]
PointersAfter(s, i) ==
  IF mValueType[s] # "ANY" \/ mDIType[i] = "ANY" THEN mDIConn
  ELSE [d \in Input |-> IF d \in Destinations(s) /\ mDIConn[d] = NoConnection
                          THEN s ELSE mDIConn[d]]

(* establishDataConnection(s, i) with its response: the types, then        *)
(* addDestination, then connectDI, which refuses an input that has another *)
(* source; the failed connection is taken back with popFront.              *)
\* A faulty DstExists, in no behaviour of the specification.
NeverExists(s, i) == FALSE
DstExists(s, i) == i \in Destinations(s)

Admitted(s, i) ==
  mValueType[s] = "ANY" \/ CanBeConnected(mValueType[s], mDIType[i])

Refused(s, i) == PointersAfter(s, i)[i] \notin {s, NoConnection}

ConnectEffect(s, i) ==
  LET types == DestinationsConfigured(s, i)
      added == Append(mDestinationIds[s], i)
  IN IF ~Admitted(s, i) \/ DstExists(s, i)
       THEN /\ mDIConn' = PointersAfter(s, i)
            /\ mDIType' = types
            /\ UNCHANGED <<mDestinationIds, answered>>
     ELSE IF Refused(s, i)
       THEN /\ mDestinationIds' = [mDestinationIds EXCEPT ![s] = Tail(added)]
            /\ mDIConn' = PointersAfter(s, i)
            /\ mDIType' = types
            /\ UNCHANGED answered
     ELSE /\ mDestinationIds' = [mDestinationIds EXCEPT ![s] = added]
          /\ mDIConn' = [PointersAfter(s, i) EXCEPT ![i] = s]
          /\ mDIType' = [types EXCEPT ![i] = Configured(@, ValueAfter(s, i))]
          /\ answered' = answered \cup {<<s, i>>}

Exists(p) == mFBState[Owner[p]] # "none"
SourcesOf(i) == {s \in Source : <<s, i>> \in answered}

Connect(s, i) ==
  /\ Exists(s) /\ Exists(i)
  /\ SingleSource => SourcesOf(i) \subseteq {s}
  /\ mValueType' = [mValueType EXCEPT ![s] = ValueAfter(s, i)]
  /\ mSpecialCast' =
       IF mValueType[s] = "ANY" THEN mSpecialCast
       ELSE [mSpecialCast EXCEPT
               ![s] = SpecialCastAfter(mValueType[s], mDIType[i], @)]
  /\ ConnectEffect(s, i)
  /\ UNCHANGED mFBState

(* disconnect: only what the list holds, then the input's pointer is       *)
(* cleared whatever it points to.                                          *)
\* A faulty PointerCleared, in no behaviour of the specification.
PointerLeft(i) == mDIConn
PointerCleared(i) == [mDIConn EXCEPT ![i] = NoConnection]

Disconnect(s, i) ==
  /\ Exists(s) /\ Exists(i)
  /\ i \in Destinations(s)
  /\ mDestinationIds' = [mDestinationIds EXCEPT ![s] = RemoveFirst(@, i)]
  /\ mDIConn' = PointerCleared(i)
  /\ answered' = answered \ {<<s, i>>}
  /\ UNCHANGED <<mFBState, mValueType, mSpecialCast, mDIType>>

-----------------------------------------------------------------------------
(* createFB: a block has its declared interface, unconnected; its creation *)
(* ends with a Reset.                                                      *)
Ports(f) == {p \in Source \cup Input : Owner[p] = f}

CreateFB(f) ==
  /\ mFBState[f] = "none"
  /\ mFBState' = [mFBState EXCEPT ![f] = "IDLE"]
  /\ mDestinationIds' = [s \in Source |->
                           IF s \in Ports(f) THEN <<>> ELSE mDestinationIds[s]]
  /\ mValueType' = [s \in Source |->
                      IF s \in Ports(f) THEN Declared[s] ELSE mValueType[s]]
  /\ mSpecialCast' = [s \in Source |-> s \notin Ports(f) /\ mSpecialCast[s]]
  /\ mDIConn' = [i \in Input |->
                   IF i \in Ports(f) THEN NoConnection ELSE mDIConn[i]]
  /\ mDIType' = [i \in Input |->
                   IF i \in Ports(f) THEN Declared[i] ELSE mDIType[i]]
  /\ UNCHANGED answered

(* deleteFB: isCurrentlyDeleteable looks at the state only, and nothing is *)
(* done about connections.                                                 *)
Connected(f) == \E c \in answered : f \in {Owner[c[1]], Owner[c[2]]}

IsCurrentlyDeleteable(f) == mFBState[f] # "RUNNING"

DeleteFB(f) ==
  /\ mFBState[f] # "none"
  /\ IsCurrentlyDeleteable(f)
  /\ DisconnectFirst => ~Connected(f)
  /\ mFBState' = [mFBState EXCEPT ![f] = "none"]
  /\ answered' = {c \in answered : f \notin {Owner[c[1]], Owner[c[2]]}}
  /\ UNCHANGED <<mDestinationIds, mValueType, mSpecialCast, mDIConn, mDIType>>

(* CFunctionBlock::changeFBExecutionState.                                 *)
NextState(command, state) ==
  CASE command = "Start" /\ state \in {"IDLE", "STOPPED"}   -> "RUNNING"
    [] command = "Stop"  /\ state = "RUNNING"               -> "STOPPED"
    [] command = "Kill"  /\ state = "RUNNING"               -> "KILLED"
    [] command = "Reset" /\ state \in {"STOPPED", "KILLED"} -> "IDLE"
    [] OTHER -> state

ChangeFBExecutionState(f, command) ==
  /\ NextState(command, mFBState[f]) # mFBState[f]
  /\ mFBState' = [mFBState EXCEPT ![f] = NextState(command, @)]
  /\ UNCHANGED portVars

Next ==
  \/ \E s \in Source, i \in Input : Connect(s, i) \/ Disconnect(s, i)
  \/ \E f \in FB :
       \/ CreateFB(f) \/ DeleteFB(f)
       \/ \E c \in {"Start", "Stop", "Kill", "Reset"} :
            ChangeFBExecutionState(f, c)

Spec == Init /\ [][Next]_vars

-----------------------------------------------------------------------------
(* What the manager was answered, what the connections list and what the   *)
(* inputs point to are the same set of connections: the two ends of        *)
(* establishDataConnection and disconnect never disagree.                  *)
EndsAgree ==
  \A s \in Source, i \in Input :
    LET exists == <<s, i>> \in answered
    IN /\ (Exists(s) /\ i \in Destinations(s)) <=> exists
       /\ (Exists(i) /\ mDIConn[i] = s) <=> exists

(* No existing block holds a pointer to a deleted one.                     *)
NoDanglingEnd ==
  /\ \A s \in Source :
       Exists(s) => \A i \in Destinations(s) : Exists(i)
  /\ \A i \in Input :
       Exists(i) /\ mDIConn[i] # NoConnection => Exists(mDIConn[i])

(* Once the type of a connection is settled, every input it feeds has a    *)
(* type the value can be read into: the generic blocks connected before    *)
(* were told (handleAnySrcPortConnection), and no refused attempt changes  *)
(* a type.                                                                 *)
ValuesConvert ==
  \A s \in Source, i \in Input : <<s, i>> \in answered =>
    IF mValueType[s] = "ANY" THEN mDIType[i] = "ANY"
    ELSE mDIType[i] # "ANY" /\ CanBeConnected(mValueType[s], mDIType[i])

(* A floating point value is converted for an integer input (readData with *)
(* specialCast): copied with setValue it would be a bit pattern.  A later  *)
(* attempt that is refused clears the flag; this holds only where every    *)
(* port is numeric (ConnectionsProofs).                                    *)
FloatsConverted ==
  \A s \in Source, i \in Input :
    <<s, i>> \in answered /\ mValueType[s] \in Reals /\ mDIType[i] = "INT"
      => mSpecialCast[s]
=============================================================================
