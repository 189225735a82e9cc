CONSTANTS
  g1 = g1
  g2 = g2
  Null = Null
  Unset = Unset
  Group = {g1, g2}
  Calls = 2
  MaxSlot = 1
  Chunk = 2
  Requests <- RowLists
  Core = 2
  MaxPool = 3
  QueueCap = 1
  MaxOthers = 1
  Faults = {"crash", "lost", "dies", "client", "migrate"}
  Lists <- GroupLists
  Queries = {"", "odd", "none"}
  Matches <- Found
  PerPage = {1, 2}
  FirstPerPage = 2
  MaxDisplayed = 5
  TTL = 10
  MaxLoads = 2
SPECIFICATION ConsoleSpec
INVARIANTS
  DistributedAsAsked
  LastFailureShown
  TableConsistent
PROPERTIES
  MigratedStays
  DistributionEnds
CHECK_DEADLOCK FALSE
