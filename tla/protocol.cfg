CONSTANTS
  c1 = c1
  c2 = c2
  g1 = g1
  g2 = g2
  g3 = g3
  NoGid = {g1, g2, g3}
  Null = Null
  Client = {c1}
  Gid = {g1, g2, g3}
  MaxSlot = 1
  Faults = {"moveFail", "crash", "connFail", "overlap", "delTask"}
  MaxUpd = 1
  MaxTasks = 2
  Delays = {"short", "long"}
SPECIFICATION Spec
INVARIANTS
  TypeOK
  HandoverComplete
PROPERTIES
  OwnershipMoves
  RecordOutlivesMigration
SYMMETRY Symmetry
CHECK_DEADLOCK FALSE

