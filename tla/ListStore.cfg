\* Two requests of different people, with ids enough for anything they insert.
SPECIFICATION FairSpec
CONSTANTS
  Lists = {l1, l2, l3}
  Items = {i1, i2, i3, i4}
  Actors = {ann, bob}
  Requests = {r1, r2}
  SeedLists = {l1}
  SeedItems = {i1}
  None = None
INVARIANTS
  ItemsFollowTheirList
  CopyIsolated
  PurchaseRecordsAgree
  EveryChangeAnnounced
PROPERTIES
  DeletedRowsFrozen
  CreditMovesOnlyInARace
  ImplementsBoard
  RequestsFinish
  ChangesReachClients
