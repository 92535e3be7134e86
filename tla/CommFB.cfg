\* A server, a client and a subscriber whose peers, application and manager wait
\* until the block has handled what went before.
CONSTANTS
  MaxOpen = 3
  QueueSize = 2
  BufferSize = 2
  ExtSize = 2
  MaxMsgs = 2
  Rough = {}
SPECIFICATION FairSpec
INVARIANTS
  TypeOK
  IndicatedOnce
  ReceivedIsHandled
  NoDeadLayer
  CallbacksAgree
PROPERTIES
  PeersServed
