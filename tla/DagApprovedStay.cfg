\* A unit approves two tips that stand side by side in the pool.
CONSTANTS
  Handlers = {h1}
  Worker = worker
  NoOne = no_one
  MaxInfos = 0
  MaxRemote = 3
  MaxSyncs = 0
  MaxEarlier = 0
  MaxFound = 0
  Spurious = FALSE
SPECIFICATION Spec
PROPERTIES
  ApprovedLeavePool
CHECK_DEADLOCK FALSE
