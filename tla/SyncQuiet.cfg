SPECIFICATION Spec
CONSTANTS
  p1 = p1
  p2 = p2
  w1 = w1
  w2 = w2
  UserPath <- TwoPaths
  StdLib <- StdP2
  IgnoreConfigs <- MaybeSkip1
  Slot <- OneSlot
  Worker <- Workers
  Size <- SizeDistinct
  EditsDuringSync = FALSE
  Troubles <- NoSilent
  MaxBudget <- QuietLimits
SYMMETRY WorkerSymmetry
INVARIANTS NoSilentLoss
