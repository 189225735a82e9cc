CONSTANTS
  w1 = w1
  w2 = w2
  w3 = w3
  Worker = {w1, w2, w3}
  Servers = 2
  MaxClient = 1
  Tries = 2
  Width = 2
  Null = Null
SPECIFICATION FairSpec
INVARIANTS
  NothingForgotten
  WaitsForClients
PROPERTIES
  LossExplained
  PoolImplements
CHECK_DEADLOCK FALSE
