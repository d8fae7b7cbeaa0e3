\* Every DAG of four units; the longest chain and the diamond exceed a limit.
CONSTANTS
  Unit <- MCUnit
  Genesis = 1
  SelfWeight <- MCSelfWeight
  QueryLimit = 3
  TriggerDepth = 4
  MaxPushes = 5
SPECIFICATION Spec
INVARIANTS
  TypeOK
  WeightMeaning
  WeightChecked
  RepeatedAgrees
  RepeatedFallsShort
PROPERTIES
  OnlyGrows
  LostOnlyIfDeep
CHECK_DEADLOCK FALSE
