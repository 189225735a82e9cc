CONSTANTS
  i1 = i1
  i2 = i2
  r1 = r1
  r2 = r2
  r3 = r3
  Null = Null
  Instance = {i1, i2}
  Call = {r1, r2, r3}
  Of <- TwoAndOne
  MaxSlot = 1
  Ranges <- AllAndOne
  Core = 2
  MaxPool = 2
  QueueCap = 1
  Faults = {"crash", "delTask"}
  Lossy = {r1}
SPECIFICATION FairSpec
INVARIANTS
  AdminTypeOK
  OneTaskPerInstance
  RunsItsOwn
  RefusedLeavesNothing
PROPERTIES
  InstanceFreed
  QueueDrains
CHECK_DEADLOCK FALSE
