SPECIFICATION Spec
CONSTANTS
  MatchCount = 3
  StartTime <- MCStartTime
  IndexCost <- MCIndexCost
  SummaryCost <- MCSummaryCost
  Budgets <- MCBudgets
  MaxFailures = 1
  Cursors <- MCCursors
  MaxMoves = 1
  MaxMishaps = 1
INVARIANTS
  TypeOK
  ActiveIsReady
  PageIsHonest
PROPERTIES
  ProactiveWorkEnds
