SPECIFICATION ScreenSpec
CONSTANTS
  Versions = {1, 2}
  Times <- MCTimes
  Battles <- MCBattles
  Events <- MCEvents
  Steps = {1, 2}
  MaxActs = 2
  MaxFaults = 1
  BattleCount = 2
  MaxMoves = 4
  MaxMisses = 1
  Places = {0, 1, 2, 3}
  Gap = {0}
  Units <- MCUnits
  ChatQueries = 2
  MaxSeeks = 2
  MaxMishaps = 1
  u = u
  v = v
  x = x
INVARIANTS
  FramesAreTrue
  OverlaysComeRight
  FollowsBattles
PROPERTIES
  PanIsFoughtOnce
  ScreenComesToRest
CHECK_DEADLOCK FALSE
