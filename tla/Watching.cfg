SPECIFICATION FairSpec
CONSTANTS
  p1 = p1
  p2 = p2
  Path <- TwoPaths
  None = None
  Flood = 1
  Capacity = 1
  Batch = 2
  MaxEdits = 2
  MaxTroubles = 2
  Troubles <- Trouble
INVARIANTS TypeOK NothingUnannounced OneFlush
PROPERTY EventuallySeen
