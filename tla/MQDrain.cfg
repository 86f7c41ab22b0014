SPECIFICATION FairSpec
CONSTANTS
  t1 = t1
  t2 = t2
  w1 = w1
  w2 = w2
  w3 = w3
  Tab <- TwoTabs
  Worker <- TwoWorkers
  TabOf <- Apart
  First <- TwoWorkers
  MaxMessages = 2
  BatchSize = 2
  MaxRetries = 1
  DisableDLQ = FALSE
  MaxTimers = 1
  MaxTroubles = 0
  Troubles <- Nothing
PROPERTY EventuallyDrained
