\* The instance ended at any time.
SPECIFICATION FairSpec
CHECK_DEADLOCK FALSE
CONSTANTS
  Dev = Dev
  Mgr = Mgr
  r1 = r1
  r2 = r2
  restart = restart
  b1 = b1
  b2 = b2
  ResourceList <- MCResourceList
  BlockList <- MCBlockList
  RestartFBs = {restart}
  QueueSize = 2
  Commands <- MCCommands
  Rough = {}
PROPERTY
  InstanceEnds
