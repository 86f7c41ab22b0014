SPECIFICATION FairSpec
CONSTANTS
  p1 = p1
  p2 = p2
  t1 = t1
  t2 = t2
  Path <- OnePath
  Tab <- TwoTabs
  Command <- OneTab
  BatchSize = 2
  MaxRetries = 1
  MaxManual = 1
  MaxTroubles = 2
  MaxEvents = 2
  Troubles <- Ordinary
CHECK_DEADLOCK FALSE
INVARIANTS TypeOK CompleteMeansWhole
PROPERTY DoneOnce EventuallyWhole
