SPECIFICATION FairSpec
CONSTANTS
  Procs = {p1, p2}
  Blocks = {b1, b2, b3}
  Values = {0, 1}
  Zero = 0
  NoData = NoData
  LOGSIZE = 4
  nlog = 4
  MAXOPBLOCKS = 2
  OpBlocks = 1
  MaxOps = 3
  MaxCrashes = 2
INVARIANTS Durability NoPanic
PROPERTIES AtomicSpec EveryCallBegins
