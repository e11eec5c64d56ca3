SPECIFICATION Spec
CONSTANTS
  Procs = {p1, p2, p3}
  initproc = p1
  Pages = {g1, g2, g3, g4, g5, g6, g7}
  None = None
  Values = {zero, junk}
  Zero = zero
  Junk = junk
  MaxSize = 2
  NPTENTRIES = 1
  MaxCalls = 4
INVARIANTS RefCounts NoInternalPanic
PROPERTY PrivateSpec
