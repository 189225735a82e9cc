CONSTANTS
  c1 = c1
  c2 = c2
  g1 = g1
  g2 = g2
  g3 = g3
  NoGid = NoGid
  Null = Null
  Client = {c1}
  Gid = {g1, g2}
  MaxSlot = 0
  Faults = {"join", "leave", "expire", "zkLoss", "timeout", "edit"}
  MaxUpd = 1
  MaxTasks = 2
  Delays = {"long"}
SPECIFICATION Spec
INVARIANTS
  BarrierSound
  CacheCurrent
SYMMETRY Symmetry
CHECK_DEADLOCK FALSE
