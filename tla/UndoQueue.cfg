SPECIFICATION FairSpec
CONSTANTS
  Order <- MCOrder
  MaxRemovals = 3
  MaxHints = 1
  MaxVisits = 1
INVARIANTS
  DecidedOnce
  OverviewInOrder
PROPERTIES
  NoRemovalForgotten
CHECK_DEADLOCK FALSE
