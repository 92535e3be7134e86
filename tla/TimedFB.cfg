\* One block of each kind under a considerate application; time is bounded, so
\* the model stops at MaxTime.
CONSTANTS
  cycle = cycle
  delay = delay
  rdelay = rdelay
  FB = {cycle, delay, rdelay}
  NoFB = NoFB
  Periodic = {cycle}
  Kind <- MCKind
  Delays = {0, 2}
  MaxTime = 3
  MaxPending = 3
  Spaced = TRUE
  Prompt = TRUE
  Restart = FALSE
CHECK_DEADLOCK FALSE
SPECIFICATION Spec
INVARIANTS
  TypeOK
  ListsSound
  NothingOverdue
  ActiveMeansListed
PROPERTIES
  EONotEarly
  StoppedFallsSilent
