CONSTANTS
  c1 = c1
  g1 = g1
  g2 = g2
  NoGid = NoGid
  Null = Null
  Client = {c1}
  Gid = {g1, g2}
  MaxSlot = 0
  Faults = {"timeout", "join", "leave"}
  MaxUpd = 1
  MaxTasks = 1
  Delays = {"short"}
SPECIFICATION TwiceFairSpecG1
PROPERTIES
  WritesUnblocked
  CachesConverge
  TaskFinishes
CHECK_DEADLOCK FALSE
