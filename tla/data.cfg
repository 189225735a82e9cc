CONSTANTS
  c1 = c1
  c2 = c2
  g1 = g1
  g2 = g2
  k1 = k1
  k2 = k2
  v1 = v1
  v2 = v2
  NoGid = NoGid
  Null = Null
  Client = {c1, c2}
  Gid = {g1, g2}
  MaxSlot = 0
  Faults = {}
  MaxUpd = 1
  MaxTasks = 2
  Delays = {"long"}
  Key = {k1}
  Value = {v1, v2}
  KeySlot <- OneSlot
  Ops = {"get", "set"}
  DataFaults = {}
SPECIFICATION DataSpec
INVARIANTS
  DataTypeOK
  NoLostWrite
  OneCopy
  ReadsFresh
  SourceEmpty
PROPERTIES
  Spec
SYMMETRY Symmetry
CHECK_DEADLOCK FALSE
