\* Two network threads against the worker, from any rows and tips of two earlier units.
CONSTANTS
  Handlers = {h1, h2}
  Worker = worker
  NoOne = no_one
  MaxInfos = 2
  MaxRemote = 1
  MaxSyncs = 0
  MaxEarlier = 1
  MaxFound = 2
  Spurious = TRUE
SPECIFICATION Spec
SYMMETRY Symmetry
INVARIANTS
  TypeOK
  InfosAccounted
  ApprovedHere
  OwnInOrder
  WaitJustified
  SomethingToApprove
  CopiesBounded
PROPERTIES
  NothingForgotten
CHECK_DEADLOCK FALSE
