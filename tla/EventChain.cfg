\* Small lists, a load that fills the external list but never the internal one
\* (as 10 of 256 entries do on the target), start, stop, reset and kill in every
\* order; a killed resource rests.
CONSTANTS
  NoEvent = NoEvent
  Event = {e1, e2}
  IntSize = 4
  ExtSize = 2
  Load = 3
  Commands = {"Start", "Stop", "Reset", "Kill"}
CHECK_DEADLOCK FALSE
SPECIFICATION FairSpec
INVARIANTS
  TypeOK
  ExternalListSound
  NoLostWakeup
  StopNotSleptThrough
  EmptyMeansEmpty
PROPERTIES
  ImplementsEventQueue
  ExternalEventsTransferred
  ChainEventsDelivered
  StopEndsRunningThread
