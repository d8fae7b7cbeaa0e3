\* Two nodes, three starts, two infos; datagrams lost and reordered, crashes.
CONSTANTS
  Node = {a, b}
  NoOne = no_one
  User = user
  Commands = FALSE
  MaxBoots = 3
  MaxInfos = 2
SPECIFICATION Spec
SYMMETRY Symmetry
INVARIANTS
  TypeOK
  JoinerHolds
PROPERTIES
  StoredForGood
CHECK_DEADLOCK FALSE
