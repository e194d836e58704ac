SPECIFICATION MainSpec
CONSTANTS
  w1 = w1
  w2 = w2
  r1 = r1
  Conn <- MCConn
  Writer <- MCWriter
  PageCount = 2
  CachePages = 1
  MaxWrites = 3
  MatchCount = 2
  FirstTick <- MCFirstTick
  LastTick <- MCLastTick
  Loaded <- MCLoaded
  Edited <- MCEdited
  MaxEdits = 1
  MaxReverts = 1
  MaxEvictions = 1
INVARIANTS
  TypeOK
  LockIsExact
  CoherentUnlessOverlapped
  SlicesAreSound
PROPERTIES
  StaysAlone
  PrefetchingEnds
