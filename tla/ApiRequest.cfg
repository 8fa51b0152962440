SPECIFICATION ApiSpec
CONSTANTS
  Requests = {r1}
  Asked <- MCAll
  Bodies <- MCBodies
  Tokens <- MCTokens
  None = None
  Null = Null
  MaxName = 3
  MaxNote = 1
  SuffixLen = 1
  MaxInt32 = 2
  MaxOutages = 1
INVARIANTS
  InFlightCounts
  ServedOnlyMembers
  OneAnswer
  AnswerTells
  GivenIsClean
  DomainAgreesWithSpec
  CapHolds
CHECK_DEADLOCK FALSE
