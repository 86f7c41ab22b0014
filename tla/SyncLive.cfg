SPECIFICATION FairSpec
CONSTANTS
  p1 = p1
  p2 = p2
  w1 = w1
  w2 = w2
  UserPath <- OnePath
  StdLib <- NoPaths
  IgnoreConfigs <- MaybeSkip1
  Slot <- TwoSlots
  Worker <- Workers
  Size <- SizeDistinct
  EditsDuringSync = TRUE
  Troubles <- AllTroubles
  MaxBudget <- RaceLimits
PROPERTY EventuallyConverged
