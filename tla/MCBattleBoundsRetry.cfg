SPECIFICATION BoundsSpec
CONSTANTS
  MatchCount = 3
  FirstTick <- MCFirstTick
  LastTick <- MCLastTick
  Loaded <- MCLoaded
  Edited <- MCEdited
  MaxEdits = 1
  MaxReverts = 1
  MaxEvictions = 1
PROPERTY MovesOn
