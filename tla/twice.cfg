CONSTANTS
  c1 = c1
  g1 = g1
  g2 = g2
  NoGid = NoGid
  Null = Null
  Client = {c1}
  Gid = {g1, g2}
  MaxSlot = 1
  Faults = {}
  MaxUpd = 1
  MaxTasks = 1
  Delays = {"long"}
SPECIFICATION TwiceSpec
INVARIANTS
  AllClientsConfirmed
CHECK_DEADLOCK FALSE
