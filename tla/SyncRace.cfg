SPECIFICATION Spec
CONSTANTS
  p1 = p1
  p2 = p2
  w1 = w1
  w2 = w2
  UserPath <- TwoPaths
  StdLib <- NoPaths
  IgnoreConfigs <- SyncAll
  Slot <- TwoSlots
  Worker <- Workers
  Size <- SizeDistinct
  EditsDuringSync = TRUE
  Troubles <- Mishaps
  MaxBudget <- RaceLimits
SYMMETRY WorkerSymmetry
INVARIANTS TypeOK SnapshotAgreement MutexHeld
PROPERTY DeletionsJustified
