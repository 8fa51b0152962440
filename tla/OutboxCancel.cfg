SPECIFICATION Spec
CONSTANTS
  Slots = {m1, m2}
  Temps = {t1}
  MaxAdds = 1
  Reals = {r1}
  Retries = 1
  MaxTroubles = 1
  EditOps = {edit}
  None = None
PROPERTY CancelledNeverPosts
CHECK_DEADLOCK FALSE
