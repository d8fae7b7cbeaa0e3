\* Fair threads, no spurious wake-ups, any start, one synchronisation: every wait ends.
CONSTANTS
  Handlers = {h1, h2}
  Worker = worker
  NoOne = no_one
  MaxInfos = 2
  MaxRemote = 0
  MaxSyncs = 1
  MaxEarlier = 1
  MaxFound = 2
  Spurious = FALSE
SPECIFICATION FairSpec
PROPERTIES
  InfosWorkedOff
  ReceivedIsHeld
CHECK_DEADLOCK FALSE
