SPECIFICATION Spec
CONSTANTS
  Slots = {m1, m2, m3}
  Temps = {t1, t2}
  MaxAdds = 1
  Reals = {r1, r2}
  Retries = 1
  MaxTroubles = 2
  EditOps = {check, edit}
  None = None
SYMMETRY Interchangeable
INVARIANTS
  SettledAsAsked
  NoLostWakeup
PROPERTY RetriesNameTheRow
CHECK_DEADLOCK FALSE
