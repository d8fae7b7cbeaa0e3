\* Does a node only make a genesis unit if it heard of no other?
CONSTANTS
  Node = {a, b}
  NoOne = no_one
  User = user
  Commands = FALSE
  MaxBoots = 3
  MaxInfos = 1
SPECIFICATION Spec
PROPERTIES
  GenesisIfAlone
CHECK_DEADLOCK FALSE
