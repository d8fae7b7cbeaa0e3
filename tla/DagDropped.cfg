\* A tip is taken between a notification and the wake-up.
CONSTANTS
  Handlers = {h1, h2}
  Worker = worker
  NoOne = no_one
  MaxInfos = 1
  MaxRemote = 2
  MaxSyncs = 0
  MaxEarlier = 0
  MaxFound = 0
  Spurious = FALSE
SPECIFICATION Spec
INVARIANTS
  EveryInfoPacked
CHECK_DEADLOCK FALSE
