\* Three migrations, two runs of migrate, one server.
SPECIFICATION FairSpec
CONSTANTS
  Last = 3
  Jobs = {j1, j2}
  None = None
  MaxOutages = 1
  MaxArrivals = 2
INVARIANTS
  TypeOK
  SchemaAsRecorded
  DrainsBeforeExit
PROPERTIES
  StopEnds
CHECK_DEADLOCK FALSE
