\* The manager kills the block whenever it likes.
CONSTANTS
  MaxOpen = 2
  QueueSize = 2
  BufferSize = 2
  ExtSize = 2
  MaxMsgs = 2
  Rough = {"Kill"}
SPECIFICATION FairSpec
INVARIANTS
  ReopenIsSafe
