\* One E_RDELAY whose START also comes while it is active; the application is
\* considerate otherwise, and the time ends before the first delay has passed.
CONSTANTS
  cycle = cycle
  delay = delay
  rdelay = rdelay
  FB = {rdelay}
  NoFB = NoFB
  Periodic = {}
  Kind <- MCKind
  Delays = {3}
  MaxTime = 2
  MaxPending = 3
  Spaced = TRUE
  Prompt = TRUE
  Restart = TRUE
CHECK_DEADLOCK FALSE
SPECIFICATION Spec
PROPERTY
  EONotEarly
