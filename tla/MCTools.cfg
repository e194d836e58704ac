SPECIFICATION ToolsSpec
CONSTANTS
  Typed <- MCTyped
  MaxWrites = 2
  MaxSaves = 3
  MaxWaiting = 2
  ScreenH = 4
  ContentCap = 2
  PanelKinds = {"chat", "panel", "clone"}
  Default <- MCDefault
  Added <- MCAdded
  EngineMax = 3
  ScreenMax = 2
  Acts <- MCActs
  MaxActs = 2
  MaxId = 4
  w1 = w1
  w2 = w2
INVARIANTS
  CheckpointsAreSound
  QueriesAreHeld
  ExplorersAreSound
PROPERTIES
  RevertRestores
  WindowsBehave
  ToolsComeToRest
CHECK_DEADLOCK FALSE
