------------------------- MODULE MCEventConnections -------------------------
(* Three blocks: an event source f with an output and a plug, g with an    *)
(* input and a socket, h with an input, a plug and a socket.              *)
EXTENDS EventConnections

MCOwner == "e" :> "f" @@ "p" :> "f" @@ "i" :> "g" @@ "s" :> "g" @@ "j" :> "h" @@ "q" :> "h" @@ "t" :> "h"
MCType == [a \in Adapter |-> "gripper"]
=============================================================================
