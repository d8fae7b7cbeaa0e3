\* Every DAG of four units, crashes, both limits within reach.
CONSTANTS
  Unit <- MCUnit
  Genesis = 1
  SelfWeight <- MCSelfWeight
  QueryLimit = 3
  TriggerDepth = 4
  MaxPushes = 5
SPECIFICATION Spec
INVARIANTS
  TypeOK
  CreditedOnce
PROPERTIES
  ImplementsStore
CHECK_DEADLOCK FALSE
