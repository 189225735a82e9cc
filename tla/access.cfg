CONSTANTS
  t1 = t1
  t2 = t2
  g1 = g1
  g2 = g2
  Thread = {t1, t2}
  Gid = {g1, g2}
  MaxTotal = 2
  Null = Null
SPECIFICATION FairSpec
INVARIANTS
  AccessTypeOK
  LeasesAccounted
  LimitFollowsNode
PROPERTIES
  PoolRecovers
CHECK_DEADLOCK FALSE
