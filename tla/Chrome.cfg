SPECIFICATION FairSpec
CONSTANTS
  s1 = s1
  s2 = s2
  Transport <- Two
  None = None
  MaxTroubles = 2
  Troubles <- Ordinary
INVARIANTS TypeOK OneBrowser NoTabLost
PROPERTY EventuallyReady

CHECK_DEADLOCK FALSE
