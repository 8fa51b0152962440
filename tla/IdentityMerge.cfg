\* Two merges among three identities, beside two sign-ins and two changes to a list
\* and an item.
SPECIFICATION Spec
CONSTANTS
  Locals = {ann, bob}
  SsoIds = {sam}
  Lists = {l1}
  Items = {i1}
  Merges = {m1, m2}
  None = None
  MaxActs = 2
  MaxLogins = 2
SYMMETRY Interchangeable
INVARIANTS
  HistoryMoves
  NamesResolve
CHECK_DEADLOCK FALSE
