SPECIFICATION FairSpec
CONSTANTS
  p1 = p1
  p2 = p2
  c1 = c1
  Path <- TwoPaths
  Caller <- OneCaller
  Lister = Lister
  Indexer = Indexer
  None = None
  BatchSize = 2
  MaxRetries = 1
  MaxVersions = 2
  MaxEvents = 3
  Troubles <- Mishaps
INVARIANTS TypeOK OneComparison SeenIsIndexed
PROPERTY EventuallyIndexed
