\* Three nodes that start one after another: two counts, one of them late.
CONSTANTS
  Node = {a, b, c}
  NoOne = no_one
  User = user
  Commands = FALSE
  MaxBoots = 3
  MaxInfos = 0
SPECIFICATION FairSpec
PROPERTIES
  BootEnds
CHECK_DEADLOCK FALSE
