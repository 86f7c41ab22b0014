SPECIFICATION FairSpec
CONSTANTS
  note = note
  photo = photo
  e1 = e1
  e2 = e2
  Path <- BothFiles
  Synced <- Notes
  Engine <- Two
  None = None
  MaxChanges = 2
  MaxTroubles = 1
  Troubles <- Ordinary
INVARIANTS TypeOK ListingComplete WritesKept OneEngine
PROPERTY EventuallyServing EventuallyThere
