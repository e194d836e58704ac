SPECIFICATION Spec
CHECK_DEADLOCK FALSE
CONSTANTS
  ReaderCounts <- MCReaderCounts
  MaxLoads <- MCMaxLoads
  MaxMishaps = 1
INVARIANTS
  LoadIsSound
PROPERTIES
  LoadEnds
