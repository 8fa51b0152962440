SPECIFICATION Spec
CONSTANTS
  Limiters = {"ip", "user"}
  Keys = {"home", "ann", "typo"}
  Burst <- MCBurst
  Interval <- MCInterval
  MaxKeys <- MCMaxKeys
  PruneEvery = 1
  MaxTime = 1
  Requests = {r1, r2}
  Accounts = {"ann"}
  SsoUsers = {"sam"}
  Names = {"ann", "typo"}
  Address = "home"
  Absent = Absent
  Comparisons = 1
  MaxSends = 4
  MaxFlows = 2
  MaxTokens = 3
  MaxFailures = 1
SYMMETRY Interchangeable
INVARIANTS
  TypeOK
  PruningUnseen
  MapsBounded
  TokenMeansOneUser
  CookieTellsWho
CHECK_DEADLOCK FALSE
