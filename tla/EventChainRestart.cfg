\* A resource started again after its ecet has ended.
CONSTANTS
  NoEvent = NoEvent
  Event = {e1}
  IntSize = 3
  ExtSize = 2
  Load = 1
  Commands = {"Start", "Stop"}
SPECIFICATION FairSpec
PROPERTY
  StartRunsThread
