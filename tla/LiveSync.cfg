SPECIFICATION FairSpec
CONSTANTS
  Items = {i1}
  Slots = {m1, m2}
  Room = 1
  MaxChanges = 1
  MaxTroubles = 1
INVARIANTS
  RestsInSync
PROPERTIES
  ViewCatchesUp
CHECK_DEADLOCK FALSE
