\* A manager who also connects a second plug to a socket in use, and takes away
\* what an event is passing.
SPECIFICATION Spec
CONSTANTS
  FB = {"f", "g", "h"}
  Output = {"e"}
  Input = {"i", "j"}
  Plug = {"p", "q"}
  Socket = {"s", "t"}
  Owner <- MCOwner
  Type <- MCType
  EventSource = {"f"}
  QueueSize = 2
  Rough = {"second"}
  None = None
  Freed = Freed
INVARIANTS TypeOK SocketBacked NoDanglingPeer DestinationsServed
