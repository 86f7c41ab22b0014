SPECIFICATION FairSpec
CONSTANTS
  p1 = p1
  p2 = p2
  t1 = t1
  t2 = t2
  Path <- OnePath
  Tab <- OneTab
  Command <- OneTab
  BatchSize = 2
  MaxRetries = 1
  MaxManual = 0
  MaxTroubles = 1
  MaxEvents = 1
  Troubles <- Interrupted
CHECK_DEADLOCK FALSE
PROPERTY EventuallyWhole
