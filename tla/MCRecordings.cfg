SPECIFICATION RecordingsSpec
CONSTANTS
  Replays <- MCReplays
  SkipFirst = 5
  MergeWindow = 15
  MinMatchGap = 10
  MinTailGap = 5
  MaxMatches = 2
  Values = {1, 2}
  MaxTicks = 3
  MaxSpawns = 1
  MaxChanges = 2
  MaxFaults = 2
INVARIANTS
  RecordingIsSound
  BattlesAreFound
  DownloadsAreTrue
  ArchivesSurvive
PROPERTIES
  StagesEnd
CHECK_DEADLOCK FALSE
