SPECIFICATION Spec
CONSTANTS
  t1 = t1
  t2 = t2
  w1 = w1
  w2 = w2
  w3 = w3
  Tab <- TwoTabs
  Worker <- ThreeWorkers
  TabOf <- SplitTabs
  First <- OneEach
  MaxMessages = 1
  BatchSize = 1
  MaxRetries = 1
  DisableDLQ = FALSE
  MaxTimers = 2
  MaxTroubles = 2
  Troubles <- Orderly
INVARIANTS TypeOK NoMessageLost WaitersWait AwaitMeansHandled
PROPERTY KeepsPromise
