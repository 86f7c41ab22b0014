SPECIFICATION FairSpec
CONSTANTS
  p1 = p1
  p2 = p2
  l1 = l1
  l2 = l2
  Page <- TwoPages
  Loader <- OneLoader
  None = None
  MaxMarks = 2
  MaxWrites = 2
  MaxReads = 1
  MaxTroubles = 2
  Troubles <- Faults
CHECK_DEADLOCK FALSE
INVARIANTS TypeOK  
PROPERTY  EventuallySaved LoadsEnd
