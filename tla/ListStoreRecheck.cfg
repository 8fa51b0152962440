\* Two people check the same open item at the same time.
SPECIFICATION Spec
CONSTANTS
  Lists = {l1}
  Items = {i1}
  Actors = {ann, bob}
  Requests = {r1, r2}
  SeedLists = {l1}
  SeedItems = {i1}
  None = None
SYMMETRY Interchangeable
PROPERTIES
  BuyerNeverReassigned
