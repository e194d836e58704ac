SPECIFICATION FileSpec
CONSTANTS
  w1 = w1
  w2 = w2
  r1 = r1
  Conn <- MCConn
  Writer <- MCWriter
  PageCount = 2
  CachePages = 1
  MaxWrites = 1
INVARIANT ExclusiveIsExclusive
