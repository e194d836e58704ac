SPECIFICATION Spec
CONSTANTS
  MatchCount = 2
  ActiveAt <- MCActiveAt
  Edited = {"b"}
  MaxActs = 4
  MaxMishaps = 1
INVARIANTS
  CachesAreTruthful
  ShowsBattleOnScreen
  NothingUndoneRemains
