SPECIFICATION LibrarySpec
CONSTANTS
  Base = 2
  Slab = 12
  PageWords = 6
  MinPages = 1
  MaxRegions = 3
  MaxWords = 28
  Wrap = 16
  Sizes = {1, 4, 6}
  Arrays <- MCArrays
  Thread = {0, 1, 2}
  Loader = 0
  PoolSize = 1
  StaticCount = 1
  None = None
  MaxDepth = 2
  Files = {f1, f2, f3}
  Slots = 2
  Byte = {0, 1}
  Zero = 0
  Capacities = {0, 1, 2}
  MaxSize = 2
  f1 = f1
  f2 = f2
  f3 = f3
  NotOpen = NotOpen
INVARIANTS
  HeapIsExact
  MutexIsExact
PROPERTIES
  ImplementsAllocator
  LentOnce
  FilesAreFiles
