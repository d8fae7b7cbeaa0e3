\* The same with one info and fair threads.
CONSTANTS
  Node = {a, b}
  NoOne = no_one
  User = user
  Commands = TRUE
  MaxBoots = 3
  MaxInfos = 1
SPECIFICATION FairSpec
PROPERTIES
  GossipEnds
  BootEnds
CHECK_DEADLOCK FALSE
