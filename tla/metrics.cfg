CONSTANTS
  p1 = p1
  p2 = p2
  Producer = {p1, p2}
  Null = Null
  BufferSize = 3
  TakeSize = 2
  Workers = 2
  QueueCap = 1
  Chosen = 0
  MaxPut = 4
SPECIFICATION FairSpec
INVARIANTS
  LagBounded
  OldOnlyIfLate
  LossTold
PROPERTIES
  NonePassedOver
  EveryPositionTaken
CHECK_DEADLOCK FALSE
