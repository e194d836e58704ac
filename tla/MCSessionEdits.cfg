SPECIFICATION Spec
CONSTANTS
  t1 = t1
  e1 = e1
  e2 = e2
  Terminals <- MCTerminals
  Explorers <- MCExplorers
  Wants <- MCWants
  Queries = 2
  Statements = 2
  MaxActs = 3
  MaxSessions = 2
INVARIANTS
  SavedIsShown
CHECK_DEADLOCK FALSE
